---- MODULE Spec2Model ----
(***************************************************************************)
(* Verification model of the blockchain voting service:                    *)
(*   - the VotingSystem contract (src/contracts/VotingSystem.sol),          *)
(*   - the POST /vote/cast handler racing on one token (src/server.js),     *)
(*   - the ZKP server's MerkleTree and the manual path fold of              *)
(*     POST /zkp/generate-proof (src/zkp-server.js),                        *)
(*   - the MerkleTreeChecker circuit template                               *)
(*     (src/benchmark/k6-vote-simulation-fixed.js),                         *)
(*   - the nullifier derivation of ZKPHelper (src/benchmark/zkp-helper.js). *)
(*                                                                         *)
(* Specifications:                                                         *)
(*   Spec          the contract under arbitrary transactions and blocks     *)
(*   SpecHist      Spec with the history of successful registrations        *)
(*   SpecAudit     one election, two tokens, history and read functions     *)
(*   SpecCreate    several elections created and opened, no token           *)
(*   SpecRace      N concurrent /vote/cast requests using the same token    *)
(*   SpecMerkle    one /zkp/generate-proof request over a drawn leaf list   *)
(*   SpecFold      the manual fold and the circuit fold, level by level     *)
(*   SpecNullifier repeated calls of generateVoteProofWithMerklePath        *)
(***************************************************************************)
EXTENDS Integers, Sequences, FiniteSets, TLC

(***************************************************************************)
(* Bounds of the model.                                                    *)
(***************************************************************************)
MaxElections == 1
MaxTime == 3
NCalls == 3
MaxLeaves == 3
MaxLeaf == 2
FieldP == 7
MaxVoterIndex == 1
MaxCreated == 2

\* zkp-server.js: depth of the Merkle paths handed to the circuit
TREE_DEPTH == 20

\* the chain: time is counted in block periods, the contract is deployed in
\* some block after genesis
BlockPeriod == 1
DeployBlock == 7

VARIABLES
    \* ---- VotingSystem.sol storage ----
    elections,            \* mapping(uint256 => Election)
    votes,                \* mapping(uint256 => mapping(bytes32 => EncryptedVote))
    usedTokens,           \* mapping(uint256 => mapping(bytes32 => bool))
    electionVoteHashes,   \* mapping(uint256 => bytes32[])
    electionAuthority,    \* address
    electionCount,        \* uint256
    \* ---- the chain ----
    blockTimestamp,       \* block.timestamp of the block being built
    blockNumber,          \* block.number of the block being built
    \* ---- observation of the last transaction (receipt) ----
    last,                 \* receipt: operation, arguments, revert reason, observations
    registered,           \* history: (electionId, tokenHash) pairs whose registration succeeded
    castCount,            \* history: number of successful castVote per (electionId, tokenHash)
    history,              \* history: ids returned, votes as recorded, tallies at closing
    \* ---- POST /vote/cast requests in flight (src/server.js) ----
    calls,                \* per request: position, ballot, outcome, time of execution
    \* ---- POST /zkp/generate-proof (src/zkp-server.js) ----
    request,              \* the request being served: inputs, locals, position, response
    \* ---- manual fold and circuit fold over one path ----
    fold,                 \* level reached, currentHash, levelHashes[level], root
    \* ---- ZKPHelper (src/benchmark/zkp-helper.js) ----
    proofs,               \* results returned by generateVoteProofWithMerklePath
    zkpHelper,            \* the ZKPHelper object and the outcome of its last call
    \* ---- MerkleTreeHelper (src/benchmark/k6-vote-simulation-fixed.js) ----
    merkleTreeHelper      \* this.tree, this.leaves and the outcome of the last call

ledgerVars == <<elections, votes, usedTokens, electionVoteHashes,
                electionAuthority, electionCount, blockTimestamp, blockNumber,
                last, castCount>>

storage == <<elections, votes, usedTokens, electionVoteHashes,
             electionAuthority, electionCount>>

helperVars == <<zkpHelper, merkleTreeHelper>>

zkVars == <<request, fold, proofs, helperVars>>

vars == <<ledgerVars, registered, history, calls, zkVars>>

(***************************************************************************)
(* Argument domains.  Id 0 and ids not yet created are possible arguments. *)
(***************************************************************************)
ElectionIds == 0..MaxElections
Tokens == {1}
Ballots == {1}
Times == 0..MaxTime
Callers == {"authority", "voter"}
Titles == {"Election"}
Roots == {1}

\* msg.sender of a function without onlyAuthority
AnySender == "any"

\* bytes32(0), the value of an unset bytes32 slot
ZeroHash == <<>>

\* revert reasons of the contract, as written in the require statements
Unauthorized == "Seule l'autorite electorale est autorisee"
ElectionMissing == "L'election n'existe pas"
NotActive == "Election pas active"
NotYetOpen == "Election non encore ouverte"
Ended == "Election terminee"
Closed == "Election cloturee"
StartInPast == "L'heure de debut doit etre dans le futur"
EndBeforeStart == "L'heure de fin doit etre posterieure a l'heure de debut"
AlreadyOpen == "L'election est deja active"
AlreadyClosed == "L'election est deja cloturee"
NotOpen == "L'election n'est pas active"
TokenAlreadyRegistered == "Le token est deja enregistre"
TokenAlreadyUsed == "Token deja utilise ou invalide"
HashCollision == "Collision du hachage du vote"
Ok == "ok"

\* the spec's ElectionNotActive: any of the four rejections of electionActive
ElectionNotActive == {NotActive, NotYetOpen, Ended, Closed}

\* struct Election, all slots at their default value
ZeroElection ==
    [id |-> 0, title |-> "", startTime |-> 0, endTime |-> 0, isActive |-> FALSE,
     isClosed |-> FALSE, totalVotes |-> 0, candidatesMerkleRoot |-> 0]

\* struct EncryptedVote, all slots at their default value
ZeroVote ==
    [voteHash |-> ZeroHash, encryptedBallot |-> 0, anonymousTokenHash |-> 0,
     timestamp |-> 0, blockNumber |-> 0]

\* votes[electionId][voteHash]: an unset slot reads as the zero struct
VoteAt(e, h) == IF h \in DOMAIN votes[e] THEN votes[e][h] ELSE ZeroVote

\* keccak256(abi.encodePacked(electionId, token, ballot, timestamp, number)):
\* collision-free, never bytes32(0)
VoteHashOf(e, t, b, ts, bn) == <<e, t, b, ts, bn>>

\* lifecycle state of an election, from its two flags
LifecycleState(el) ==
    IF ~el.isActive /\ ~el.isClosed THEN "Created"
    ELSE IF el.isActive /\ ~el.isClosed THEN "Opened"
    ELSE IF ~el.isActive /\ el.isClosed THEN "Closed"
    ELSE "Invalid"

\* the election accepts votes: state Opened and ledger time inside the window
Opened(e) == elections[e].isActive /\ ~elections[e].isClosed
InWindow(e) ==
    elections[e].startTime <= blockTimestamp /\ blockTimestamp <= elections[e].endTime

\* the return value of a function that returns nothing, or that reverted
NoReturn == <<>>

\* how the schedule passed to createElection stands to the ledger time:
\* startTime strictly in the future, endTime strictly after startTime
NoSchedule == [future |-> FALSE, ordered |-> FALSE]
Schedule(startTime, endTime) ==
    [future |-> startTime > blockTimestamp, ordered |-> endTime > startTime]

\* the receipt of a transaction: the function called, the election and the
\* token it addressed, its revert reason (Ok when it was applied), what held
\* when it started, and whether it changed the storage; the sender of a
\* castVote is not looked at by the contract and not recorded
Receipt(op, sender, e, t, err) ==
    [op |-> op, sender |-> sender, electionId |-> e, tokenHash |-> t, err |-> err,
     before |-> [x \in DOMAIN elections |-> LifecycleState(elections[x])],
     wasOpened |-> Opened(e),
     wasInWindow |-> InWindow(e),
     wasUsed |-> (t \in DOMAIN castCount[e] /\ castCount[e][t] >= 1),
     wasRegistered |-> (<<e, t>> \in registered),
     wasRecorded |-> FALSE,
     schedule |-> NoSchedule,
     ret |-> NoReturn,
     changed |-> (storage' # storage)]

\* a reverted transaction: storage untouched, the reason is the only trace
Revert(op, sender, e, t, reason) ==
    /\ UNCHANGED <<elections, votes, usedTokens, electionVoteHashes,
                   electionAuthority, electionCount, castCount>>
    /\ last' = Receipt(op, sender, e, t, reason)

\* onlyAuthority with the require left out
onlyAuthorityAnyone(sender) == sender \in Callers

\* modifier onlyAuthority
onlyAuthority(sender) == sender = electionAuthority

\* modifier electionExists
electionExists(e) == elections[e].id = e

\* electionActive with the endTime require left out
electionActiveNoEndTime(e) ==
    IF ~elections[e].isActive THEN NotActive
    ELSE IF ~(blockTimestamp >= elections[e].startTime) THEN NotYetOpen
    ELSE IF elections[e].isClosed THEN Closed
    ELSE Ok

\* electionActive with every require left out
electionActiveAlways(e) == IF e \in DOMAIN elections THEN Ok ELSE NotActive

\* modifier electionActive: the reason of the first failing require, or Ok
electionActive(e) ==
    IF ~elections[e].isActive THEN NotActive
    ELSE IF ~(blockTimestamp >= elections[e].startTime) THEN NotYetOpen
    ELSE IF ~(blockTimestamp <= elections[e].endTime) THEN Ended
    ELSE IF elections[e].isClosed THEN Closed
    ELSE Ok

(***************************************************************************)
(* The ZKP server (src/zkp-server.js).  Field elements are the integers    *)
(* 0..FieldP-1.  decimal strings of field elements (toString, BigInt) are  *)
(* kept as the integers they denote: "0" is 0.                             *)
(***************************************************************************)
Field == 0..(FieldP - 1)
LeafValues == 0..MaxLeaf

\* circomlibjs poseidon([left, right]) and the circuit's Poseidon(2): a fixed
\* mixing function into the field that never yields 0
poseidon(left, right) ==
    1 + ((3 * left + 5 * right + 2 * left * right + 1) % (FieldP - 1))

\* array[i] of a JavaScript array (0-based); absent entries are undefined
Undefined == -1
At(array, i) == IF (i + 1) \in DOMAIN array THEN array[i + 1] ELSE Undefined

\* a ?? b
Coalesce(a, b) == IF a = Undefined THEN b ELSE a

\* MerkleTree.buildTree, one turn of the while loop: the next level
nextLevel(level) ==
    [k \in 1..((Len(level) + 1) \div 2) |->
        LET i == 2 * (k - 1)
            left == At(level, i)
            right == Coalesce(At(level, i + 1), At(level, i))
        IN poseidon(left, right)]

\* MerkleTree.buildTree: tree = [leaves], then one level per turn while the
\* last level has more than one node
RECURSIVE growTree(_)
growTree(tree) ==
    IF Len(tree[Len(tree)]) > 1
    THEN growTree(Append(tree, nextLevel(tree[Len(tree)])))
    ELSE tree

\* buildTree whose loop tests its condition after the first turn
buildTreeDoWhile(leaves) == growTree(<<leaves, nextLevel(leaves)>>)

buildTree(leaves) == growTree(<<leaves>>)

\* MerkleTree.getRoot
getRoot(tree) == At(tree[Len(tree)], 0)

\* MerkleTree.getProof, the for loop from `level` on
RECURSIVE proofLoop(_, _, _, _)
proofLoop(tree, level, index, proof) ==
    IF level < Len(tree) - 1
    THEN LET isRight == index % 2
             siblingIndex == IF isRight # 0 THEN index - 1 ELSE index + 1
             layer == tree[level + 1]
             sibling == Coalesce(At(layer, siblingIndex), At(layer, index))
         IN proofLoop(tree, level + 1, index \div 2,
                      [pathElements |-> Append(proof.pathElements, sibling),
                       pathIndices |-> Append(proof.pathIndices, isRight)])
    ELSE proof

\* getProof without the padding loop
padProofNone(proof) == proof

\* MerkleTree.getProof, the while loop: pad with "0" / 0 up to TREE_DEPTH
RECURSIVE padProof(_)
padProof(proof) ==
    IF Len(proof.pathElements) < TREE_DEPTH
    THEN padProof([pathElements |-> Append(proof.pathElements, 0),
                   pathIndices |-> Append(proof.pathIndices, 0)])
    ELSE proof

getProof(tree, index) ==
    padProof(proofLoop(tree, 0, index, [pathElements |-> <<>>, pathIndices |-> <<>>]))

\* indexOf of the first leaf equal to voterLeaf, -1 when there is none
findIndex(leaves, voterLeaf) ==
    IF \E k \in DOMAIN leaves : leaves[k] = voterLeaf
    THEN (CHOOSE k \in DOMAIN leaves :
             /\ leaves[k] = voterLeaf
             /\ \A j \in 1..(k - 1) : leaves[j] # voterLeaf) - 1
    ELSE -1

\* the manual fold with every level hashed, zero sibling or not
manualFoldStepNoSkip(currentHash, sibling, isRight) ==
    LET left == IF isRight = 1 THEN sibling ELSE currentHash
        right == IF isRight = 1 THEN currentHash ELSE sibling
    IN poseidon(left, right)

\* POST /zkp/generate-proof, one turn of the manual verification loop
manualFoldStep(currentHash, sibling, isRight) ==
    IF sibling = 0
    THEN currentHash
    ELSE LET left == IF isRight = 1 THEN sibling ELSE currentHash
             right == IF isRight = 1 THEN currentHash ELSE sibling
         IN poseidon(left, right)

\* POST /zkp/generate-proof, the manual verification loop from turn i on
RECURSIVE manualFold(_, _, _)
manualFold(currentHash, proofPath, i) ==
    IF i < Len(proofPath.pathElements)
    THEN manualFold(manualFoldStep(currentHash, At(proofPath.pathElements, i),
                                   At(proofPath.pathIndices, i)),
                    proofPath, i + 1)
    ELSE currentHash

(***************************************************************************)
(* The circuit (src/benchmark/k6-vote-simulation-fixed.js), over the field *)
(***************************************************************************)
\* circomlib IsZero
IsZero(in) == IF in % FieldP = 0 THEN 1 ELSE 0

\* template Selector
Selector(left_input, right_input, s) ==
    [left |-> (left_input + (right_input - left_input) * s) % FieldP,
     right |-> (right_input + (left_input - right_input) * s) % FieldP]

\* template MerkleTreeChecker, one turn of the for loop: levelHashes[i + 1]
levelHash(levelHashesI, pathElement, pathIndex) ==
    LET isZero == IsZero(pathElement)
        selector == Selector(levelHashesI, pathElement, pathIndex)
        hasher == poseidon(selector.left, selector.right)
    IN (levelHashesI + (hasher - levelHashesI) * (1 - isZero)) % FieldP

(***************************************************************************)
(* ZKPHelper (src/benchmark/zkp-helper.js).  keccak256 is collision-free:  *)
(* a digest is the tuple of what was hashed.                               *)
(***************************************************************************)
generateVoterId(index) == <<"CNI", index>>
generateSecretCode(index) == <<"SECRET", index>>
generateNullifier(voterId, secretCode) == <<voterId, secretCode>>

\* what generateVoteProofWithMerklePath returns for (voterIndex, electionId),
\* by the mock branch when the circuit files are missing
generateVoteProofWithMerklePath(voterIndex, electionId, isReady) ==
    LET voterId == generateVoterId(voterIndex)
        secretCode == generateSecretCode(voterIndex)
        nullifier == generateNullifier(voterId, secretCode)
    IN [voterId |-> voterId, secretCode |-> secretCode, electionId |-> electionId,
        mock |-> ~isReady, nullifier |-> nullifier]

\* err.message of a rejected snarkjs.groth16.fullProve
ProvingFailed == "fullProve failed"

(***************************************************************************)
(* ZKPHelper (src/benchmark/zkp-helper.js): the entry points that call the *)
(* external prover and verifier.  `resolved` tells whether groth16.fullProve *)
(* resolved or rejected; `outcome` is what happens inside the try block of *)
(* verifyProofLocally.                                                     *)
(***************************************************************************)
NotAvailable == "Circuit ZKP non disponible - fichiers WASM ou zkey manquants"
Candidates == {"Candidat_A", "Candidat_B"}
MerkleRoots == {1, 2}

\* ZKPHelper.generateMockProof (the random bytes of pi_a, pi_b, pi_c left out)
generateMockProof(voterId, secretCode, candidateId, merkleRoot) ==
    [mock |-> TRUE, nullifier |-> generateNullifier(voterId, secretCode),
     merkleRoot |-> merkleRoot]

\* ZKPHelper.generateRealProof: what it returns or throws
generateRealProof(isReady, voterId, secretCode, candidateId, merkleRoot, resolved) ==
    IF ~isReady
    THEN [threw |-> TRUE, error |-> NotAvailable, proof |-> {}, proverCalls |-> 0]
    ELSE IF resolved
    THEN [threw |-> FALSE, error |-> "",
          proof |-> {[mock |-> FALSE,
                      nullifier |-> generateNullifier(voterId, secretCode),
                      merkleRoot |-> merkleRoot]},
          proverCalls |-> 1]
    ELSE [threw |-> TRUE, error |-> ProvingFailed, proof |-> {}, proverCalls |-> 1]

\* ZKPHelper.generateVoteProof: what it returns or throws
generateVoteProof(isReady, voterIndex, candidateId, merkleRoot, resolved) ==
    LET voterId == generateVoterId(voterIndex)
        secretCode == generateSecretCode(voterIndex)
        mock == generateMockProof(voterId, secretCode, candidateId, merkleRoot)
        real == generateRealProof(isReady, voterId, secretCode, candidateId,
                                  merkleRoot, resolved)
    IN IF isReady
       THEN IF real.threw
            THEN [threw |-> FALSE, error |-> "", proof |-> {mock},
                  proverCalls |-> real.proverCalls]
            ELSE real
       ELSE [threw |-> FALSE, error |-> "", proof |-> {mock}, proverCalls |-> 0]

\* inside the try block of verifyProofLocally: groth16.verify returns true or
\* false, or one of readFileSync / JSON.parse, BigInt(s), groth16.verify throws
VerifyOutcomes == {"valid", "invalid", "unreadableKey", "badSignal", "verifyError"}

\* verifyProofLocally without the catch block
verifyProofLocallyUncaught(vkeyPath, outcome) ==
    IF ~vkeyPath THEN [threw |-> FALSE, value |-> TRUE, verifyCalls |-> 0]
    ELSE IF outcome \in {"valid", "invalid"}
    THEN [threw |-> FALSE, value |-> (outcome = "valid"), verifyCalls |-> 1]
    ELSE [threw |-> TRUE, value |-> FALSE,
          verifyCalls |-> IF outcome = "verifyError" THEN 1 ELSE 0]

\* ZKPHelper.verifyProofLocally: the value returned
verifyProofLocally(vkeyPath, outcome) ==
    IF ~vkeyPath THEN [threw |-> FALSE, value |-> TRUE, verifyCalls |-> 0]
    ELSE IF outcome \in {"valid", "invalid"}
    THEN [threw |-> FALSE, value |-> (outcome = "valid"), verifyCalls |-> 1]
    ELSE [threw |-> FALSE, value |-> FALSE,
          verifyCalls |-> IF outcome = "verifyError" THEN 1 ELSE 0]

(***************************************************************************)
(* MerkleTreeHelper (src/benchmark/k6-vote-simulation-fixed.js).  Decimal  *)
(* strings are kept as the integers they denote; a hexadecimal string is   *)
(* its prefix and its digits, most significant first.                      *)
(***************************************************************************)
\* const depth = 20, and the literal 20 of getMerklePath and getRoot
HelperDepth == 20

NotBuilt == "Arbre de Merkle non construit"
IndexOutOfRange == "Index hors limites"

\* the digits of a string read in the given base
RECURSIVE parseDigits(_, _)
parseDigits(digits, base) ==
    IF digits = <<>> THEN 0
    ELSE base * parseDigits(SubSeq(digits, 1, Len(digits) - 1), base)
            + digits[Len(digits)]

\* BigInt(string): hexadecimal after the prefix "0x", decimal otherwise
BigInt(string) ==
    IF string.prefix = "0x" THEN parseDigits(string.digits, 16)
    ELSE parseDigits(string.digits, 10)

\* MerkleTreeHelper.hexToBigInt: the prefix is optional
hexToBigInt(hex) == BigInt([prefix |-> "0x", digits |-> hex.digits])

\* BigInt.prototype.toString(16)
RECURSIVE toString16(_)
toString16(n) == IF n < 16 THEN <<n>> ELSE toString16(n \div 16) \o <<n % 16>>

\* String.prototype.padStart(targetLength, '0')
padStart(digits, targetLength) ==
    IF Len(digits) >= targetLength THEN digits
    ELSE [i \in 1..(targetLength - Len(digits)) |-> 0] \o digits

\* '0x' + BigInt(root).toString(16).padStart(64, '0')
toHex64(n) == [prefix |-> "0x", digits |-> padStart(toString16(n), 64)]

\* MerkleTreeHelper.hash
MerkleTreeHelper_hash(left, right) == poseidon(left, right)

\* buildTree, the body of the outer loop: the next level of currentLevel
MerkleTreeHelper_nextLevel(currentLevel) ==
    LET pairs == (Len(currentLevel) + 1) \div 2
        pushed == [k \in 1..pairs |->
            LET i == 2 * (k - 1)
                left == At(currentLevel, i)
                right == IF i + 1 < Len(currentLevel) THEN At(currentLevel, i + 1) ELSE 0
            IN IF right = 0 THEN left ELSE MerkleTreeHelper_hash(left, right)]
    IN IF Len(pushed) = 0 THEN <<0>> ELSE pushed

\* buildTree, the outer loop from the given level up to depth
RECURSIVE MerkleTreeHelper_levels(_, _)
MerkleTreeHelper_levels(tree, level) ==
    IF ~(level < HelperDepth) THEN tree
    ELSE MerkleTreeHelper_levels(
             Append(tree, MerkleTreeHelper_nextLevel(At(tree, level))), level + 1)

\* MerkleTreeHelper.buildTree: this.leaves, this.tree and the root returned
MerkleTreeHelper_buildTree(voterIds) ==
    LET leaves == [i \in DOMAIN voterIds |-> hexToBigInt(voterIds[i])]
        tree == MerkleTreeHelper_levels(<<leaves>>, 0)
    IN [leaves |-> leaves, tree |-> tree, root |-> At(At(tree, HelperDepth), 0)]

NoPath == [elements |-> <<>>, indices |-> <<>>]

\* getMerklePath, the loop from the given level
RECURSIVE MerkleTreeHelper_pathLoop(_, _, _, _)
MerkleTreeHelper_pathLoop(tree, index, level, path) ==
    IF ~(level < HelperDepth) THEN path
    ELSE LET currentLevel == At(tree, level)
             isLeft == index % 2 = 0
             siblingIndex == IF isLeft THEN index + 1 ELSE index - 1
             sibling == IF siblingIndex >= 0 /\ siblingIndex < Len(currentLevel)
                        THEN At(currentLevel, siblingIndex) ELSE 0
         IN MerkleTreeHelper_pathLoop(tree, index \div 2, level + 1,
                [elements |-> Append(path.elements, sibling),
                 indices |-> Append(path.indices, IF isLeft THEN 0 ELSE 1)])

\* MerkleTreeHelper.getMerklePath
MerkleTreeHelper_getMerklePath(tree, leaves, leafIndex) ==
    IF Len(tree) = 0 THEN [threw |-> TRUE, error |-> NotBuilt, path |-> NoPath]
    ELSE IF leafIndex >= Len(leaves)
    THEN [threw |-> TRUE, error |-> IndexOutOfRange, path |-> NoPath]
    ELSE [threw |-> FALSE, error |-> "",
          path |-> MerkleTreeHelper_pathLoop(tree, leafIndex, 0, NoPath)]

\* getRoot that returns the first leaf instead of the node of level depth
MerkleTreeHelper_getRootOfLeaves(tree) ==
    toHex64(At(At(tree, 0), 0))

\* MerkleTreeHelper.getRoot, for a tree that was built
MerkleTreeHelper_getRoot(tree) ==
    toHex64(At(At(tree, HelperDepth), 0))

\* verifyPath, the loop from entry i
RECURSIVE MerkleTreeHelper_verifyLoop(_, _, _)
MerkleTreeHelper_verifyLoop(currentHash, path, i) ==
    IF ~(i < Len(path.elements)) THEN currentHash
    ELSE LET sibling == At(path.elements, i)
             isLeft == At(path.indices, i) = 0
         IN MerkleTreeHelper_verifyLoop(
                IF sibling = 0 THEN currentHash
                ELSE IF isLeft THEN MerkleTreeHelper_hash(currentHash, sibling)
                ELSE MerkleTreeHelper_hash(sibling, currentHash),
                path, i + 1)

\* MerkleTreeHelper.verifyPath
MerkleTreeHelper_verifyPath(leaf, path, root) ==
    MerkleTreeHelper_verifyLoop(leaf, path, 0) = BigInt(root)

(***************************************************************************)
(* constructor                                                             *)
(***************************************************************************)
\* the contract just deployed; the model follows the storage slots of the
\* election ids in `ids` and of the token hashes in `tokens`
Deployed(ids, tokens) ==
    /\ elections = [e \in ids |-> ZeroElection]
    /\ votes = [e \in ids |-> <<>>]
    /\ usedTokens = [e \in ids |-> [t \in tokens |-> FALSE]]
    /\ electionVoteHashes = [e \in ids |-> <<>>]
    /\ electionAuthority = "authority"
    /\ electionCount = 0
    /\ blockTimestamp = 1
    /\ blockNumber = DeployBlock
    /\ last = [op |-> "constructor", sender |-> "authority", electionId |-> 0,
               tokenHash |-> 0, err |-> Ok,
               before |-> [x \in ids |-> "Created"],
               wasOpened |-> FALSE, wasInWindow |-> FALSE, wasUsed |-> FALSE,
               wasRegistered |-> FALSE, wasRecorded |-> FALSE,
               schedule |-> NoSchedule, ret |-> NoReturn, changed |-> TRUE]
    /\ castCount = [e \in ids |-> [t \in tokens |-> 0]]

LedgerInit == Deployed(ElectionIds, Tokens)

(***************************************************************************)
(* createElection: the requires in order, then the effects                 *)
(***************************************************************************)
createElectionCheck(sender, startTime, endTime) ==
    IF ~onlyAuthority(sender) THEN Unauthorized
    ELSE IF ~(startTime >= blockTimestamp) THEN StartInPast
    ELSE IF ~(endTime > startTime) THEN EndBeforeStart
    ELSE Ok

\* createElection that stores the election but does not count it
createElectionNoCount(sender, title, startTime, endTime, root) ==
    IF createElectionCheck(sender, startTime, endTime) # Ok
    THEN
        /\ UNCHANGED <<elections, votes, usedTokens, electionVoteHashes,
                       electionAuthority, electionCount, castCount>>
        /\ last' = [Receipt("createElection", sender, 0, 0,
                            createElectionCheck(sender, startTime, endTime))
                       EXCEPT !.schedule = Schedule(startTime, endTime)]
    ELSE
        LET electionId == electionCount + 1 IN
        /\ elections' = [elections EXCEPT ![electionId] =
               [id |-> electionId, title |-> title, startTime |-> startTime,
                endTime |-> endTime, isActive |-> FALSE, isClosed |-> FALSE,
                totalVotes |-> 0, candidatesMerkleRoot |-> root]]
        /\ UNCHANGED <<votes, usedTokens, electionVoteHashes, electionAuthority,
                       electionCount, castCount>>
        /\ last' = [Receipt("createElection", sender, electionId, 0, Ok)
                       EXCEPT !.schedule = Schedule(startTime, endTime),
                              !.ret = <<electionId>>]

createElection(sender, title, startTime, endTime, root) ==
    IF createElectionCheck(sender, startTime, endTime) # Ok
    THEN
        /\ UNCHANGED <<elections, votes, usedTokens, electionVoteHashes,
                       electionAuthority, electionCount, castCount>>
        /\ last' = [Receipt("createElection", sender, 0, 0,
                            createElectionCheck(sender, startTime, endTime))
                       EXCEPT !.schedule = Schedule(startTime, endTime)]
    ELSE
        LET electionId == electionCount + 1 IN
        /\ electionCount' = electionCount + 1
        /\ elections' = [elections EXCEPT ![electionId] =
               [id |-> electionId, title |-> title, startTime |-> startTime,
                endTime |-> endTime, isActive |-> FALSE, isClosed |-> FALSE,
                totalVotes |-> 0, candidatesMerkleRoot |-> root]]
        /\ UNCHANGED <<votes, usedTokens, electionVoteHashes, electionAuthority,
                       castCount>>
        /\ last' = [Receipt("createElection", sender, electionId, 0, Ok)
                       EXCEPT !.schedule = Schedule(startTime, endTime),
                              !.ret = <<electionId>>]

(***************************************************************************)
(* openElection                                                            *)
(***************************************************************************)
\* openElection with the isClosed require left out
openElectionCheckNoClosed(sender, electionId) ==
    IF ~onlyAuthority(sender) THEN Unauthorized
    ELSE IF ~electionExists(electionId) THEN ElectionMissing
    ELSE IF ~(~elections[electionId].isActive) THEN AlreadyOpen
    ELSE Ok

openElectionCheck(sender, electionId) ==
    IF ~onlyAuthority(sender) THEN Unauthorized
    ELSE IF ~electionExists(electionId) THEN ElectionMissing
    ELSE IF ~(~elections[electionId].isActive) THEN AlreadyOpen
    ELSE IF ~(~elections[electionId].isClosed) THEN AlreadyClosed
    ELSE Ok

openElection(sender, electionId) ==
    IF openElectionCheck(sender, electionId) # Ok
    THEN Revert("openElection", sender, electionId, 0, openElectionCheck(sender, electionId))
    ELSE
        /\ elections' = [elections EXCEPT ![electionId].isActive = TRUE]
        /\ UNCHANGED <<votes, usedTokens, electionVoteHashes, electionAuthority,
                       electionCount, castCount>>
        /\ last' = Receipt("openElection", sender, electionId, 0, Ok)

(***************************************************************************)
(* closeElection                                                           *)
(***************************************************************************)
\* closeElection with the isActive require left out
closeElectionCheckNoActive(sender, electionId) ==
    IF ~onlyAuthority(sender) THEN Unauthorized
    ELSE IF ~electionExists(electionId) THEN ElectionMissing
    ELSE IF ~(~elections[electionId].isClosed) THEN AlreadyClosed
    ELSE Ok

closeElectionCheck(sender, electionId) ==
    IF ~onlyAuthority(sender) THEN Unauthorized
    ELSE IF ~electionExists(electionId) THEN ElectionMissing
    ELSE IF ~elections[electionId].isActive THEN NotOpen
    ELSE IF ~(~elections[electionId].isClosed) THEN AlreadyClosed
    ELSE Ok

closeElection(sender, electionId) ==
    IF closeElectionCheck(sender, electionId) # Ok
    THEN Revert("closeElection", sender, electionId, 0, closeElectionCheck(sender, electionId))
    ELSE
        /\ elections' = [elections EXCEPT ![electionId].isActive = FALSE,
                                          ![electionId].isClosed = TRUE]
        /\ UNCHANGED <<votes, usedTokens, electionVoteHashes, electionAuthority,
                       electionCount, castCount>>
        /\ last' = Receipt("closeElection", sender, electionId, 0, Ok)

(***************************************************************************)
(* registerAnonymousToken                                                  *)
(***************************************************************************)
registerAnonymousTokenCheck(sender, electionId, tokenHash) ==
    IF ~onlyAuthority(sender) THEN Unauthorized
    ELSE IF ~electionExists(electionId) THEN ElectionMissing
    ELSE IF ~(~usedTokens[electionId][tokenHash]) THEN TokenAlreadyRegistered
    ELSE Ok

registerAnonymousToken(sender, electionId, tokenHash) ==
    IF registerAnonymousTokenCheck(sender, electionId, tokenHash) # Ok
    THEN Revert("registerAnonymousToken", sender, electionId, tokenHash,
                registerAnonymousTokenCheck(sender, electionId, tokenHash))
    ELSE
        /\ usedTokens' = [usedTokens EXCEPT ![electionId][tokenHash] = FALSE]
        /\ UNCHANGED <<elections, votes, electionVoteHashes, electionAuthority,
                       electionCount, castCount>>
        /\ last' = Receipt("registerAnonymousToken", sender, electionId, tokenHash, Ok)

(***************************************************************************)
(* castVote                                                                *)
(***************************************************************************)
\* castVote with the usedTokens require left out
castVoteCheckNoTokenCheck(electionId, anonymousTokenHash, encryptedBallot) ==
    LET voteHash == VoteHashOf(electionId, anonymousTokenHash, encryptedBallot,
                               blockTimestamp, blockNumber)
    IN
    IF electionActive(electionId) # Ok THEN electionActive(electionId)
    ELSE IF ~(VoteAt(electionId, voteHash).voteHash = ZeroHash) THEN HashCollision
    ELSE Ok

\* castVote with only the electionActive modifier
castVoteCheckOnlyActive(electionId, anonymousTokenHash, encryptedBallot) ==
    electionActive(electionId)

castVoteCheck(electionId, anonymousTokenHash, encryptedBallot) ==
    LET voteHash == VoteHashOf(electionId, anonymousTokenHash, encryptedBallot,
                               blockTimestamp, blockNumber)
    IN
    IF electionActive(electionId) # Ok THEN electionActive(electionId)
    ELSE IF ~(usedTokens[electionId][anonymousTokenHash] = FALSE) THEN TokenAlreadyUsed
    ELSE IF ~(VoteAt(electionId, voteHash).voteHash = ZeroHash) THEN HashCollision
    ELSE Ok

\* the receipt of castVote: whether votes[electionId][voteHash] was already
\* set when the call started, and the voteHash returned
castVoteReceipt(electionId, anonymousTokenHash, voteHash, err) ==
    [Receipt("castVote", AnySender, electionId, anonymousTokenHash, err)
        EXCEPT !.wasRecorded = (VoteAt(electionId, voteHash).voteHash # ZeroHash),
               !.ret = IF err = Ok THEN voteHash ELSE NoReturn]

\* castVote that records the vote but does not mark the token used
castVoteNoMark(electionId, anonymousTokenHash, encryptedBallot) ==
    LET voteHash == VoteHashOf(electionId, anonymousTokenHash, encryptedBallot,
                               blockTimestamp, blockNumber)
    IN
    IF castVoteCheck(electionId, anonymousTokenHash, encryptedBallot) # Ok
    THEN
        /\ UNCHANGED <<elections, votes, usedTokens, electionVoteHashes,
                       electionAuthority, electionCount, castCount>>
        /\ last' = castVoteReceipt(electionId, anonymousTokenHash, voteHash,
                       castVoteCheck(electionId, anonymousTokenHash, encryptedBallot))
    ELSE
        /\ votes' = [votes EXCEPT ![electionId] =
               (voteHash :>
                  [voteHash |-> voteHash, encryptedBallot |-> encryptedBallot,
                   anonymousTokenHash |-> anonymousTokenHash,
                   timestamp |-> blockTimestamp, blockNumber |-> blockNumber]) @@ @]
        /\ electionVoteHashes' =
               [electionVoteHashes EXCEPT ![electionId] = Append(@, voteHash)]
        /\ elections' = [elections EXCEPT ![electionId].totalVotes = @ + 1]
        /\ castCount' = [castCount EXCEPT ![electionId][anonymousTokenHash] = @ + 1]
        /\ UNCHANGED <<usedTokens, electionAuthority, electionCount>>
        /\ last' = castVoteReceipt(electionId, anonymousTokenHash, voteHash, Ok)

\* castVote that records the vote but does not count it in totalVotes
castVoteNoCount(electionId, anonymousTokenHash, encryptedBallot) ==
    LET voteHash == VoteHashOf(electionId, anonymousTokenHash, encryptedBallot,
                               blockTimestamp, blockNumber)
    IN
    IF castVoteCheck(electionId, anonymousTokenHash, encryptedBallot) # Ok
    THEN
        /\ UNCHANGED <<elections, votes, usedTokens, electionVoteHashes,
                       electionAuthority, electionCount, castCount>>
        /\ last' = castVoteReceipt(electionId, anonymousTokenHash, voteHash,
                       castVoteCheck(electionId, anonymousTokenHash, encryptedBallot))
    ELSE
        /\ usedTokens' = [usedTokens EXCEPT ![electionId][anonymousTokenHash] = TRUE]
        /\ votes' = [votes EXCEPT ![electionId] =
               (voteHash :>
                  [voteHash |-> voteHash, encryptedBallot |-> encryptedBallot,
                   anonymousTokenHash |-> anonymousTokenHash,
                   timestamp |-> blockTimestamp, blockNumber |-> blockNumber]) @@ @]
        /\ electionVoteHashes' =
               [electionVoteHashes EXCEPT ![electionId] = Append(@, voteHash)]
        /\ castCount' = [castCount EXCEPT ![electionId][anonymousTokenHash] = @ + 1]
        /\ UNCHANGED <<elections, electionAuthority, electionCount>>
        /\ last' = castVoteReceipt(electionId, anonymousTokenHash, voteHash, Ok)

\* castVote that puts the new hash at the head of the list
castVotePrepend(electionId, anonymousTokenHash, encryptedBallot) ==
    LET voteHash == VoteHashOf(electionId, anonymousTokenHash, encryptedBallot,
                               blockTimestamp, blockNumber)
    IN
    IF castVoteCheck(electionId, anonymousTokenHash, encryptedBallot) # Ok
    THEN
        /\ UNCHANGED <<elections, votes, usedTokens, electionVoteHashes,
                       electionAuthority, electionCount, castCount>>
        /\ last' = castVoteReceipt(electionId, anonymousTokenHash, voteHash,
                       castVoteCheck(electionId, anonymousTokenHash, encryptedBallot))
    ELSE
        /\ usedTokens' = [usedTokens EXCEPT ![electionId][anonymousTokenHash] = TRUE]
        /\ votes' = [votes EXCEPT ![electionId] =
               (voteHash :>
                  [voteHash |-> voteHash, encryptedBallot |-> encryptedBallot,
                   anonymousTokenHash |-> anonymousTokenHash,
                   timestamp |-> blockTimestamp, blockNumber |-> blockNumber]) @@ @]
        /\ electionVoteHashes' =
               [electionVoteHashes EXCEPT ![electionId] = <<voteHash>> \o @]
        /\ elections' = [elections EXCEPT ![electionId].totalVotes = @ + 1]
        /\ castCount' = [castCount EXCEPT ![electionId][anonymousTokenHash] = @ + 1]
        /\ UNCHANGED <<electionAuthority, electionCount>>
        /\ last' = castVoteReceipt(electionId, anonymousTokenHash, voteHash, Ok)

\* verifyVoteInclusion reading the timestamp slot for both numbers
verifyVoteInclusionTimestampTwice(electionId, voteHash) ==
    [exists |-> VoteAt(electionId, voteHash).voteHash # ZeroHash,
     timestamp |-> VoteAt(electionId, voteHash).timestamp,
     blockNumber |-> VoteAt(electionId, voteHash).timestamp]

\* castVote that marks the token used in every election
castVoteMarkEverywhere(electionId, anonymousTokenHash, encryptedBallot) ==
    LET voteHash == VoteHashOf(electionId, anonymousTokenHash, encryptedBallot,
                               blockTimestamp, blockNumber)
    IN
    IF castVoteCheck(electionId, anonymousTokenHash, encryptedBallot) # Ok
    THEN
        /\ UNCHANGED <<elections, votes, usedTokens, electionVoteHashes,
                       electionAuthority, electionCount, castCount>>
        /\ last' = castVoteReceipt(electionId, anonymousTokenHash, voteHash,
                       castVoteCheck(electionId, anonymousTokenHash, encryptedBallot))
    ELSE
        /\ usedTokens' = [e \in DOMAIN usedTokens |->
                             [usedTokens[e] EXCEPT ![anonymousTokenHash] = TRUE]]
        /\ votes' = [votes EXCEPT ![electionId] =
               (voteHash :>
                  [voteHash |-> voteHash, encryptedBallot |-> encryptedBallot,
                   anonymousTokenHash |-> anonymousTokenHash,
                   timestamp |-> blockTimestamp, blockNumber |-> blockNumber]) @@ @]
        /\ electionVoteHashes' =
               [electionVoteHashes EXCEPT ![electionId] = Append(@, voteHash)]
        /\ elections' = [elections EXCEPT ![electionId].totalVotes = @ + 1]
        /\ castCount' = [castCount EXCEPT ![electionId][anonymousTokenHash] = @ + 1]
        /\ UNCHANGED <<electionAuthority, electionCount>>
        /\ last' = castVoteReceipt(electionId, anonymousTokenHash, voteHash, Ok)

castVote(electionId, anonymousTokenHash, encryptedBallot) ==
    LET voteHash == VoteHashOf(electionId, anonymousTokenHash, encryptedBallot,
                               blockTimestamp, blockNumber)
    IN
    IF castVoteCheck(electionId, anonymousTokenHash, encryptedBallot) # Ok
    THEN
        /\ UNCHANGED <<elections, votes, usedTokens, electionVoteHashes,
                       electionAuthority, electionCount, castCount>>
        /\ last' = castVoteReceipt(electionId, anonymousTokenHash, voteHash,
                       castVoteCheck(electionId, anonymousTokenHash, encryptedBallot))
    ELSE
        /\ usedTokens' = [usedTokens EXCEPT ![electionId][anonymousTokenHash] = TRUE]
        /\ votes' = [votes EXCEPT ![electionId] =
               (voteHash :>
                  [voteHash |-> voteHash, encryptedBallot |-> encryptedBallot,
                   anonymousTokenHash |-> anonymousTokenHash,
                   timestamp |-> blockTimestamp, blockNumber |-> blockNumber]) @@ @]
        /\ electionVoteHashes' =
               [electionVoteHashes EXCEPT ![electionId] = Append(@, voteHash)]
        /\ elections' = [elections EXCEPT ![electionId].totalVotes = @ + 1]
        /\ castCount' = [castCount EXCEPT ![electionId][anonymousTokenHash] = @ + 1]
        /\ UNCHANGED <<electionAuthority, electionCount>>
        /\ last' = castVoteReceipt(electionId, anonymousTokenHash, voteHash, Ok)

(***************************************************************************)
(* Transactions and blocks                                                 *)
(***************************************************************************)
CreateElection ==
    \E sender \in Callers, title \in Titles, startTime \in Times,
       endTime \in Times, root \in Roots :
        /\ (electionCount + 1) \in DOMAIN elections
        /\ createElection(sender, title, startTime, endTime, root)
        /\ UNCHANGED <<blockTimestamp, blockNumber>>

OpenElection ==
    \E sender \in Callers, electionId \in DOMAIN elections :
        /\ openElection(sender, electionId)
        /\ UNCHANGED <<blockTimestamp, blockNumber>>

CloseElection ==
    \E sender \in Callers, electionId \in DOMAIN elections :
        /\ closeElection(sender, electionId)
        /\ UNCHANGED <<blockTimestamp, blockNumber>>

RegisterAnonymousToken ==
    \E sender \in Callers, electionId \in DOMAIN elections :
      \E tokenHash \in DOMAIN usedTokens[electionId] :
        /\ registerAnonymousToken(sender, electionId, tokenHash)
        /\ UNCHANGED <<blockTimestamp, blockNumber>>

CastVote ==
    \E electionId \in DOMAIN elections, ballot \in Ballots :
      \E tokenHash \in DOMAIN usedTokens[electionId] :
        /\ castVote(electionId, tokenHash, ballot)
        /\ UNCHANGED <<blockTimestamp, blockNumber>>

\* the next block, one block period later
NewBlock ==
    /\ blockTimestamp + BlockPeriod <= MaxTime
    /\ blockTimestamp' = blockTimestamp + BlockPeriod
    /\ blockNumber' = blockNumber + 1
    /\ UNCHANGED <<elections, votes, usedTokens, electionVoteHashes,
                   electionAuthority, electionCount, last, castCount>>

(***************************************************************************)
(* Spec: the contract under arbitrary transactions and blocks.             *)
(***************************************************************************)
RaceIdle == calls = <<>>

\* no history kept
NoHistory == [ids |-> <<>>]
HistoryIdle == history = NoHistory

\* no /zkp/generate-proof request, no fold, no proof generated
RequestIdle == [pc |-> "none"]
FoldIdle == [level |-> 0]
ZkpHelperIdle == [pc |-> "none"]
MerkleTreeHelperIdle == [pc |-> "none"]
HelpersIdle == zkpHelper = ZkpHelperIdle /\ merkleTreeHelper = MerkleTreeHelperIdle
ZkIdle == request = RequestIdle /\ fold = FoldIdle /\ proofs = {} /\ HelpersIdle

Init == LedgerInit /\ RaceIdle /\ registered = {} /\ HistoryIdle /\ ZkIdle

Next ==
    \/ CreateElection /\ UNCHANGED <<calls, registered, history, zkVars>>
    \/ OpenElection /\ UNCHANGED <<calls, registered, history, zkVars>>
    \/ CloseElection /\ UNCHANGED <<calls, registered, history, zkVars>>
    \/ RegisterAnonymousToken /\ UNCHANGED <<calls, registered, history, zkVars>>
    \/ CastVote /\ UNCHANGED <<calls, registered, history, zkVars>>
    \/ NewBlock /\ UNCHANGED <<calls, registered, history, zkVars>>

Spec == Init /\ [][Next]_vars

(***************************************************************************)
(* SpecHist: Spec with the history of successful registrations, which the  *)
(* contract itself does not store.                                         *)
(***************************************************************************)
RegisterAnonymousTokenHist ==
    /\ RegisterAnonymousToken
    /\ registered' = IF last'.err = Ok
                     THEN registered \cup {<<last'.electionId, last'.tokenHash>>}
                     ELSE registered

HistNext ==
    \/ CreateElection /\ UNCHANGED <<calls, registered, history, zkVars>>
    \/ OpenElection /\ UNCHANGED <<calls, registered, history, zkVars>>
    \/ CloseElection /\ UNCHANGED <<calls, registered, history, zkVars>>
    \/ RegisterAnonymousTokenHist /\ UNCHANGED <<calls, history, zkVars>>
    \/ CastVote /\ UNCHANGED <<calls, registered, history, zkVars>>
    \/ NewBlock /\ UNCHANGED <<calls, registered, history, zkVars>>

SpecHist == Init /\ [][HistNext]_vars

TypeOK ==
    /\ electionCount \in DOMAIN elections
    /\ blockTimestamp \in 1..MaxTime
    /\ \A e \in DOMAIN elections :
          elections[e].totalVotes \in 0..Cardinality(DOMAIN usedTokens[e])

(***************************************************************************)
(* Read functions of the contract                                          *)
(***************************************************************************)
\* verifyVoteInclusion: (exists, timestamp, blockNumber)
verifyVoteInclusion(electionId, voteHash) ==
    [exists |-> VoteAt(electionId, voteHash).voteHash # ZeroHash,
     timestamp |-> VoteAt(electionId, voteHash).timestamp,
     blockNumber |-> VoteAt(electionId, voteHash).blockNumber]

\* getElectionVoteHashes
getElectionVoteHashes(electionId) == electionVoteHashes[electionId]

\* what closeElection is said to freeze: totalVotes, the vote-hash list and
\* the set of used tokens of an election
TallyOf(els, hashes, used, e) ==
    [totalVotes |-> els[e].totalVotes,
     voteHashes |-> hashes[e],
     usedTokens |-> {t \in DOMAIN used[e] : used[e][t]}]

Tally(e) == TallyOf(elections, electionVoteHashes, usedTokens, e)

(***************************************************************************)
(* History kept beside the contract: the ids returned by the successful    *)
(* createElection calls, the votes as the successful castVote calls        *)
(* recorded them (in the order applied), the tally of each election when   *)
(* closeElection succeeded, and the vote-hash lists before the last step.  *)
(***************************************************************************)
HistoryInit ==
    history = [ids |-> <<>>,
               cast |-> [e \in DOMAIN elections |-> <<>>],
               closed |-> [e \in DOMAIN elections |-> <<>>],
               listBefore |-> electionVoteHashes]

\* the history after the transaction whose receipt is last'
Recorded ==
    LET e == last'.electionId
        applied(op) == last'.op = op /\ last'.err = Ok
    IN
    history' =
      [ids |-> IF applied("createElection")
               THEN Append(history.ids, last'.ret[1]) ELSE history.ids,
       cast |-> IF applied("castVote")
                THEN [history.cast EXCEPT ![e] = Append(@,
                        [voteHash |-> last'.ret,
                         timestamp |-> blockTimestamp,
                         blockNumber |-> blockNumber,
                         record |-> IF last'.ret \in DOMAIN votes'[e]
                                    THEN votes'[e][last'.ret] ELSE ZeroVote])]
                ELSE history.cast,
       closed |-> IF applied("closeElection")
                  THEN [history.closed EXCEPT ![e] =
                          <<TallyOf(elections', electionVoteHashes', usedTokens', e)>>]
                  ELSE history.closed,
       listBefore |-> electionVoteHashes]

\* a call of the view function verifyVoteInclusion
VerifyVoteInclusion ==
    \E electionId \in DOMAIN elections :
      \E voteHash \in {ZeroHash} \cup
              UNION {DOMAIN votes[x] : x \in DOMAIN elections} :
        /\ UNCHANGED <<elections, votes, usedTokens, electionVoteHashes,
                       electionAuthority, electionCount, castCount,
                       blockTimestamp, blockNumber>>
        /\ last' = [Receipt("verifyVoteInclusion", AnySender, electionId, 0, Ok)
                       EXCEPT !.wasRecorded =
                                 (VoteAt(electionId, voteHash).voteHash # ZeroHash),
                              !.ret = <<verifyVoteInclusion(electionId, voteHash)>>]

(***************************************************************************)
(* SpecAudit: the contract with election ids 0 and 1 and two token hashes, *)
(* with the history and with verifyVoteInclusion calls.                    *)
(***************************************************************************)
AuditElectionIds == {0, 1}
AuditTokens == {1, 2}

AuditInit ==
    /\ Deployed(AuditElectionIds, AuditTokens)
    /\ HistoryInit
    /\ RaceIdle /\ registered = {} /\ ZkIdle

AuditNext ==
    \/ CreateElection /\ Recorded /\ UNCHANGED <<calls, registered, zkVars>>
    \/ OpenElection /\ Recorded /\ UNCHANGED <<calls, registered, zkVars>>
    \/ CloseElection /\ Recorded /\ UNCHANGED <<calls, registered, zkVars>>
    \/ RegisterAnonymousToken /\ Recorded /\ UNCHANGED <<calls, registered, zkVars>>
    \/ CastVote /\ Recorded /\ UNCHANGED <<calls, registered, zkVars>>
    \/ VerifyVoteInclusion /\ Recorded /\ UNCHANGED <<calls, registered, zkVars>>
    \/ /\ NewBlock
       /\ history' = [history EXCEPT !.listBefore = electionVoteHashes]
       /\ UNCHANGED <<calls, registered, zkVars>>

SpecAudit == AuditInit /\ [][AuditNext]_vars

(***************************************************************************)
(* SpecCreate: the contract with election ids 0..MaxCreated and no token:  *)
(* elections are created and opened as blocks pass.                        *)
(***************************************************************************)
CreateInit ==
    /\ Deployed(0..MaxCreated, {})
    /\ HistoryInit
    /\ RaceIdle /\ registered = {} /\ ZkIdle

CreateNext ==
    \/ CreateElection /\ Recorded /\ UNCHANGED <<calls, registered, zkVars>>
    \/ OpenElection /\ Recorded /\ UNCHANGED <<calls, registered, zkVars>>
    \/ /\ NewBlock
       /\ history' = [history EXCEPT !.listBefore = electionVoteHashes]
       /\ UNCHANGED <<calls, registered, zkVars>>

SpecCreate == CreateInit /\ [][CreateNext]_vars

(***************************************************************************)
(* SpecIsolation: the contract with election ids 0, 1, 2 and one token     *)
(* hash, so that both elections can be created, opened and voted in with   *)
(* the same token; whether the last transaction left the other elections  *)
(* untouched is kept beside the contract.                                  *)
(***************************************************************************)
IsolationElectionIds == {0, 1, 2}
IsolationTokens == {1}

\* what the contract stores for election e
StoredFor(e) ==
    [election |-> elections[e], usedTokens |-> usedTokens[e],
     voteHashes |-> electionVoteHashes[e], votes |-> votes[e]]

IsolationInit ==
    /\ Deployed(IsolationElectionIds, IsolationTokens)
    /\ history = [ids |-> <<>>, othersKept |-> TRUE]
    /\ RaceIdle /\ registered = {} /\ ZkIdle

\* whether the transaction left what is stored for every election other
\* than the one it addressed as it found it
Framed ==
    history' = [history EXCEPT !.othersKept =
                   \A other \in DOMAIN elections \ {last'.electionId} :
                       StoredFor(other)' = StoredFor(other)]

IsolationNext ==
    \/ CreateElection /\ Framed /\ UNCHANGED <<calls, registered, zkVars>>
    \/ OpenElection /\ Framed /\ UNCHANGED <<calls, registered, zkVars>>
    \/ CloseElection /\ Framed /\ UNCHANGED <<calls, registered, zkVars>>
    \/ RegisterAnonymousToken /\ Framed /\ UNCHANGED <<calls, registered, zkVars>>
    \/ CastVote /\ Framed /\ UNCHANGED <<calls, registered, zkVars>>
    \/ NewBlock /\ UNCHANGED <<calls, registered, history, zkVars>>

SpecIsolation == IsolationInit /\ [][IsolationNext]_vars

(***************************************************************************)
(* SpecRace: N concurrent POST /vote/cast requests that use the same token *)
(* of election 1.  Each request sends its transaction and waits for the    *)
(* receipt; the chain executes the pending transactions one at a time, in  *)
(* any order, in the current or in later blocks.                           *)
(***************************************************************************)
RaceElection == 1
RaceToken == 1

\* String.prototype.includes
includes(string, searchString) ==
    \E i \in 1..(Len(string) - Len(searchString) + 1) :
        SubSeq(string, i, i + Len(searchString) - 1) = searchString

\* error.message of the ethers error thrown for a reverted castVote: with the
\* revert reason when the node reports it, without it otherwise
ethersMessages(reason) ==
    {"execution reverted: " \o reason, "transaction execution reverted"}

\* POST /vote/cast, the catch block: the error mapping
voteCastErrorMessage(message) ==
    IF includes(message, "Token already used")
    THEN "Ce token a déjà été utilisé pour voter"
    ELSE IF includes(message, "Election not active")
    THEN "L'élection n'est pas active"
    ELSE IF includes(message, "Election closed")
    THEN "L'élection est fermée"
    ELSE message

NoResponse == [status |-> 0, success |-> FALSE, error |-> ""]

\* POST /vote/cast: the response after tx.wait() resolved (err = Ok) or after
\* the transaction threw with the given message
voteCastResponse(err, message) ==
    IF err = Ok
    THEN [status |-> 200, success |-> TRUE, error |-> ""]
    ELSE [status |-> 500, success |-> FALSE, error |-> voteCastErrorMessage(message)]

\* test8_PreventDoubleVote: the double vote counts as blocked
test8_PreventDoubleVote(result) ==
    ~result.success /\ includes(result.error, "Token already used")

\* the ledger after createElection(start, end), openElection(1) and
\* registerAnonymousToken(1, RaceToken), at any later time
RaceInit ==
    /\ \E startTime \in 1..MaxTime, endTime \in 1..MaxTime :
          /\ endTime > startTime
          /\ elections = [e \in ElectionIds |->
                IF e = RaceElection
                THEN [id |-> e, title |-> "Election", startTime |-> startTime,
                      endTime |-> endTime, isActive |-> TRUE, isClosed |-> FALSE,
                      totalVotes |-> 0, candidatesMerkleRoot |-> 1]
                ELSE ZeroElection]
    /\ votes = [e \in ElectionIds |-> <<>>]
    /\ usedTokens = [e \in ElectionIds |-> [t \in Tokens |-> FALSE]]
    /\ electionVoteHashes = [e \in ElectionIds |-> <<>>]
    /\ electionAuthority = "authority"
    /\ electionCount = 1
    /\ blockTimestamp \in 1..MaxTime
    /\ blockNumber = DeployBlock + (blockTimestamp - 1)
    /\ last = [op |-> "registerAnonymousToken", sender |-> "authority",
               electionId |-> RaceElection,
               tokenHash |-> RaceToken, err |-> Ok,
               before |-> [x \in ElectionIds |->
                              IF x = RaceElection THEN "Opened" ELSE "Created"],
               wasOpened |-> TRUE,
               wasInWindow |-> (elections[RaceElection].startTime <= blockTimestamp
                                /\ blockTimestamp <= elections[RaceElection].endTime),
               wasUsed |-> FALSE, wasRegistered |-> FALSE, wasRecorded |-> FALSE,
               schedule |-> NoSchedule, ret |-> NoReturn, changed |-> FALSE]
    /\ registered = {<<RaceElection, RaceToken>>}
    /\ HistoryIdle
    /\ castCount = [e \in ElectionIds |-> [t \in Tokens |-> 0]]
    /\ \E n \in 2..NCalls :
          calls = [i \in 1..n |-> [pc |-> "idle", ballot |-> 0, err |-> "", minedAt |-> 0,
                                   response |-> NoResponse]]
    /\ ZkIdle

\* server.js: votingContract.castVote(...) sends the transaction
SubmitVote(i) ==
    /\ calls[i].pc = "idle"
    /\ \E ballot \in Ballots :
          calls' = [calls EXCEPT ![i].pc = "pending", ![i].ballot = ballot]
    /\ UNCHANGED <<ledgerVars, registered, history, zkVars>>

\* the chain executes the transaction; tx.wait() then resolves or throws
MineVote(i) ==
    /\ calls[i].pc = "pending"
    /\ castVote(RaceElection, RaceToken, calls[i].ballot)
    /\ \E message \in ethersMessages(last'.err) :
          calls' = [calls EXCEPT ![i].pc = "done", ![i].err = last'.err,
                                 ![i].minedAt = blockTimestamp,
                                 ![i].response = voteCastResponse(last'.err, message)]
    /\ UNCHANGED <<blockTimestamp, blockNumber, registered, history, zkVars>>

RaceNext ==
    \/ \E i \in DOMAIN calls : SubmitVote(i)
    \/ \E i \in DOMAIN calls : MineVote(i)
    \/ NewBlock /\ UNCHANGED <<calls, registered, history, zkVars>>

SpecRace == RaceInit /\ [][RaceNext]_vars

(***************************************************************************)
(* SpecMerkle: one POST /zkp/generate-proof request.  The body carries a   *)
(* leaf list (possibly empty, 0 a possible leaf) and the voter's leaf.     *)
(***************************************************************************)
LeafLists == UNION {[1..n -> LeafValues] : n \in 0..MaxLeaves}

VerificationFailed == "Merkle proof verification failed"
NotEligible == "Électeur non éligible"
InvalidLeaves == "Feuilles invalides"

MerkleInit ==
    /\ \E leaves \in LeafLists, voterLeaf \in LeafValues :
          request = [pc |-> "tree", leaves |-> leaves, voterLeaf |-> voterLeaf,
                     tree |-> <<>>, index |-> -1,
                     proofPath |-> [pathElements |-> <<>>, pathIndices |-> <<>>],
                     merkleRoot |-> Undefined, currentHash |-> Undefined,
                     status |-> 0, error |-> "", proverCalls |-> 0]
    /\ fold = FoldIdle
    /\ proofs = {}
    /\ LedgerInit /\ RaceIdle /\ registered = {} /\ HistoryIdle /\ HelpersIdle

\* const tree = new MerkleTree(leaves): throws on an empty list (caught: 500)
NewMerkleTree ==
    /\ request.pc = "tree"
    /\ request' = IF Len(request.leaves) = 0
                  THEN [request EXCEPT !.pc = "done", !.status = 500,
                                       !.error = InvalidLeaves]
                  ELSE [request EXCEPT !.pc = "find",
                                       !.tree = buildTree(request.leaves)]
    /\ UNCHANGED <<ledgerVars, registered, history, calls, fold, proofs, helperVars>>

\* const index = tree.leaves.findIndex(...); 403 when the leaf is not found
FindIndex ==
    /\ request.pc = "find"
    /\ LET index == findIndex(request.leaves, request.voterLeaf) IN
       request' = IF index = -1
                  THEN [request EXCEPT !.pc = "done", !.index = index,
                                       !.status = 403, !.error = NotEligible]
                  ELSE [request EXCEPT !.pc = "proof", !.index = index]
    /\ UNCHANGED <<ledgerVars, registered, history, calls, fold, proofs, helperVars>>

\* const proofPath = tree.getProof(index); const merkleRoot = tree.getRoot()
GetProof ==
    /\ request.pc = "proof"
    /\ request' = [request EXCEPT !.pc = "fold",
                                  !.proofPath = getProof(request.tree, request.index),
                                  !.merkleRoot = getRoot(request.tree)]
    /\ UNCHANGED <<ledgerVars, registered, history, calls, fold, proofs, helperVars>>

\* the handler without the test of rootsMatch
ManualVerificationUnchecked ==
    /\ request.pc = "fold"
    /\ request' = [request EXCEPT !.pc = "prove",
                      !.currentHash = manualFold(request.voterLeaf, request.proofPath, 0)]
    /\ UNCHANGED <<ledgerVars, registered, history, calls, fold, proofs, helperVars>>

\* the manual verification; 500 when the folded hash is not the root
ManualVerification ==
    /\ request.pc = "fold"
    /\ LET currentHash == manualFold(request.voterLeaf, request.proofPath, 0)
           rootsMatch == currentHash = request.merkleRoot
       IN request' = IF ~rootsMatch
                     THEN [request EXCEPT !.pc = "done", !.currentHash = currentHash,
                                          !.status = 500, !.error = VerificationFailed]
                     ELSE [request EXCEPT !.pc = "prove", !.currentHash = currentHash]
    /\ UNCHANGED <<ledgerVars, registered, history, calls, fold, proofs, helperVars>>

\* await snarkjs.groth16.fullProve: one call; it resolves (success response)
\* or rejects (catch: 500 with err.message)
FullProve ==
    /\ request.pc = "prove"
    /\ \E resolved \in BOOLEAN :
          request' = IF resolved
                     THEN [request EXCEPT !.pc = "done", !.status = 200,
                                          !.proverCalls = @ + 1]
                     ELSE [request EXCEPT !.pc = "done", !.status = 500,
                                          !.error = ProvingFailed,
                                          !.proverCalls = @ + 1]
    /\ UNCHANGED <<ledgerVars, registered, history, calls, fold, proofs, helperVars>>

MerkleNext ==
    \/ NewMerkleTree
    \/ FindIndex
    \/ GetProof
    \/ ManualVerification
    \/ FullProve

SpecMerkle == MerkleInit /\ [][MerkleNext]_vars

(***************************************************************************)
(* SpecFold: the manual fold of /zkp/generate-proof and levelHashes of     *)
(* MerkleTreeChecker(TREE_DEPTH) run side by side over one path, one level *)
(* per step; path elements and bits are drawn level by level.              *)
(***************************************************************************)
FoldInit ==
    /\ \E leaf \in Field, root \in Field :
          fold = [level |-> 0, root |-> root, currentHash |-> leaf,
                  levelHashes |-> leaf, skipped |-> 0, hashed |-> 0]
    /\ request = RequestIdle
    /\ proofs = {}
    /\ LedgerInit /\ RaceIdle /\ registered = {} /\ HistoryIdle /\ HelpersIdle

FoldLevel ==
    /\ fold.level < TREE_DEPTH
    /\ \E pathElement \in Field, pathIndex \in {0, 1} :
          fold' = [fold EXCEPT
                     !.level = @ + 1,
                     !.currentHash = manualFoldStep(@, pathElement, pathIndex),
                     !.levelHashes = levelHash(@, pathElement, pathIndex),
                     !.skipped = IF pathElement = 0 THEN 1 ELSE @,
                     !.hashed = IF pathElement # 0 THEN 1 ELSE @]
    /\ UNCHANGED <<ledgerVars, registered, history, calls, request, proofs, helperVars>>

FoldNext == FoldLevel

SpecFold == FoldInit /\ [][FoldNext]_vars

(***************************************************************************)
(* SpecNullifier: repeated calls of generateVoteProofWithMerklePath.       *)
(***************************************************************************)
VoterIndexes == 0..MaxVoterIndex
ProofElections == {1, 2}

NullifierInit ==
    /\ proofs = {}
    /\ request = RequestIdle
    /\ fold = FoldIdle
    /\ LedgerInit /\ RaceIdle /\ registered = {} /\ HistoryIdle /\ HelpersIdle

GenerateVoteProof ==
    /\ \E voterIndex \in VoterIndexes, electionId \in ProofElections,
          isReady \in BOOLEAN :
          proofs' = proofs \cup
                      {generateVoteProofWithMerklePath(voterIndex, electionId, isReady)}
    /\ UNCHANGED <<ledgerVars, registered, history, calls, request, fold, helperVars>>

NullifierNext == GenerateVoteProof

SpecNullifier == NullifierInit /\ [][NullifierNext]_vars

(***************************************************************************)
(* SpecVerify: one POST /zkp/verify request, served by the handler of      *)
(* src/zkp-server.js or by the handler of src/unnamed/part_003.            *)
(***************************************************************************)
Handlers == {"zkp-server.js", "part_003"}
\* req.body.publicSignals: an array, an object, or anything else
SignalShapes == {"array", "object", "other"}
\* req.body.proof: absent, without a pi_b array, with a pi_b array of a
\* length other than 3, or complete
ProofShapes == {"missing", "noPiB", "shortPiB", "complete"}
\* snarkjs.groth16.verify returns true or false, or throws
Groth16Outcomes == {"valid", "invalid", "throws"}

VerifyInit ==
    /\ \E handler \in Handlers, publicSignals \in SignalShapes,
          proof \in ProofShapes, originalInputs \in BOOLEAN,
          verificationKey \in BOOLEAN :
          request = [pc |-> "signals", handler |-> handler,
                     publicSignals |-> publicSignals, proof |-> proof,
                     originalInputs |-> originalInputs,
                     verificationKey |-> verificationKey,
                     verifyCalls |-> 0, verified |-> FALSE, proverCalls |-> 0,
                     status |-> 0, success |-> FALSE, valid |-> FALSE]
    /\ fold = FoldIdle
    /\ proofs = {}
    /\ LedgerInit /\ RaceIdle /\ registered = {} /\ HistoryIdle /\ HelpersIdle

\* the catch block: 500, success false
VerifyFailed == [request EXCEPT !.pc = "done", !.status = 500, !.success = FALSE]

\* step 1: publicSignals as an array
VerifySignals ==
    /\ request.pc = "signals"
    /\ request' = IF request.publicSignals = "other" THEN VerifyFailed
                  ELSE [request EXCEPT !.pc = "proof"]
    /\ UNCHANGED <<ledgerVars, registered, history, calls, fold, proofs, helperVars>>

\* the tests made on the key and on the proof before the verification
VerifyFormatProof ==
    /\ request.pc = "proof"
    /\ request' =
          IF request.handler = "part_003"
          THEN IF ~request.verificationKey \/ request.proof # "complete"
               THEN VerifyFailed
               ELSE [request EXCEPT !.pc = "verify"]
          ELSE IF request.proof \in {"missing", "noPiB"}
               THEN VerifyFailed
               ELSE [request EXCEPT !.pc = "verify"]
    /\ UNCHANGED <<ledgerVars, registered, history, calls, fold, proofs, helperVars>>

\* const valid = await snarkjs.groth16.verify(...), and the response unless
\* the handler goes on with the analysis of the failure
VerifyGroth16 ==
    /\ request.pc = "verify"
    /\ \E outcome \in Groth16Outcomes :
          /\ ~request.verificationKey => outcome = "throws"
          /\ request' =
                IF outcome = "throws"
                THEN [VerifyFailed EXCEPT !.verifyCalls = @ + 1]
                ELSE IF request.handler = "part_003" /\ outcome = "invalid"
                        /\ request.originalInputs
                THEN [request EXCEPT !.pc = "analysis", !.verifyCalls = @ + 1,
                                     !.verified = FALSE]
                ELSE [request EXCEPT !.pc = "done", !.verifyCalls = @ + 1,
                                     !.verified = (outcome = "valid"),
                                     !.status = 200, !.success = TRUE,
                                     !.valid = (outcome = "valid")]
    /\ UNCHANGED <<ledgerVars, registered, history, calls, fold, proofs, helperVars>>

\* part_003, step 5: snarkjs.groth16.fullProve(originalInputs, ...) inside its
\* own try block (resolved or rejected), then the response
VerifyRegenerate ==
    /\ request.pc = "analysis"
    /\ request' = [request EXCEPT !.pc = "done", !.proverCalls = @ + 1,
                                  !.status = 200, !.success = TRUE,
                                  !.valid = request.verified]
    /\ UNCHANGED <<ledgerVars, registered, history, calls, fold, proofs, helperVars>>

VerifyNext ==
    \/ VerifySignals
    \/ VerifyFormatProof
    \/ VerifyGroth16
    \/ VerifyRegenerate

SpecVerify == VerifyInit /\ [][VerifyNext]_vars

(***************************************************************************)
(* SpecServer: one POST /token/register or POST /vote/cast request of      *)
(* src/server.js.  A value of the JSON body is its JavaScript type and its *)
(* content; strings are kept character by character.                       *)
(***************************************************************************)
JsUndefined == [type |-> "undefined", num |-> 0, str |-> "", bool |-> FALSE]
JsNull == [type |-> "null", num |-> 0, str |-> "", bool |-> FALSE]
JsNumber(n) == [type |-> "number", num |-> n, str |-> "", bool |-> FALSE]
JsString(s) == [type |-> "string", num |-> 0, str |-> s, bool |-> FALSE]
JsBoolean(b) == [type |-> "boolean", num |-> 0, str |-> "", bool |-> b]

DecimalDigits == {"0", "1", "2", "3", "4", "5", "6", "7", "8", "9"}
HexCharacters == DecimalDigits \cup {"a", "b", "c", "d", "e", "f",
                                     "A", "B", "C", "D", "E", "F"}
WhiteSpace == {" ", "\t", "\n"}

CharAt(s, i) == SubSeq(s, i, i)

\* the string is a non-empty run of decimal digits
IsDecimalNumeral(s) == Len(s) > 0 /\ \A i \in 1..Len(s) : CharAt(s, i) \in DecimalDigits

\* Number(string) is NaN: after trimming, neither empty nor a numeral
\* (the strings used here carry white space only as their whole content)
StringIsNaN(s) ==
    ~(\A i \in 1..Len(s) : CharAt(s, i) \in WhiteSpace) /\ ~IsDecimalNumeral(s)

\* !value
Falsy(v) ==
    \/ v.type \in {"undefined", "null"}
    \/ v.type = "number" /\ v.num = 0
    \/ v.type = "string" /\ v.str = ""
    \/ v.type = "boolean" /\ ~v.bool

\* isNaN(value): Number(value) is NaN
isNaN(v) ==
    \/ v.type = "undefined"
    \/ v.type = "string" /\ StringIsNaN(v.str)

\* validateHash: /^0x[a-fA-F0-9]{64}$/.test(hash) for a non-empty string
validateHash(hash) ==
    IF Falsy(hash) \/ hash.type # "string" THEN FALSE
    ELSE /\ Len(hash.str) = 66
         /\ SubSeq(hash.str, 1, 2) = "0x"
         /\ \A i \in 3..66 : CharAt(hash.str, i) \in HexCharacters

Hex64 == "0123456789abcdefABCDEF0123456789abcdefABCDEF0123456789abcdefABCD"
Routes == {"/token/register", "/vote/cast"}
\* req.body.electionId
ElectionIdValues ==
    {JsUndefined, JsNull, JsNumber(0), JsNumber(1), JsString("1"), JsString(""),
     JsString(" "), JsString("abc"), JsBoolean(TRUE)}
\* req.body.tokenHash / req.body.anonymousTokenHash
HashValues ==
    {JsUndefined, JsNumber(1), JsString(""), JsString("0x" \o Hex64),
     JsString(Hex64), JsString("0X" \o Hex64),
     JsString("0x" \o SubSeq(Hex64, 1, 63)), JsString("0x" \o Hex64 \o "0"),
     JsString("0x" \o SubSeq(Hex64, 1, 63) \o "g"),
     JsString("0x" \o Hex64 \o "\n")}
\* req.body.encryptedBallot
BallotValues == {JsUndefined, JsString(" "), JsString("ballot")}

ServerInit ==
    /\ \E route \in Routes, electionId \in ElectionIdValues, hash \in HashValues,
          encryptedBallot \in BallotValues, votingContract \in BOOLEAN :
          request = [pc |-> "electionId", route |-> route, electionId |-> electionId,
                     hash |-> hash,
                     encryptedBallot |-> IF route = "/vote/cast" THEN encryptedBallot
                                         ELSE JsUndefined,
                     votingContract |-> votingContract,
                     status |-> 0, transactions |-> 0]
    /\ fold = FoldIdle
    /\ proofs = {}
    /\ LedgerInit /\ RaceIdle /\ registered = {} /\ HistoryIdle /\ HelpersIdle

\* res.status(code).json(...) and return
Answered(code) == [request EXCEPT !.pc = "done", !.status = code]

\* if (!electionId || isNaN(electionId)) return 400
ValidateElectionId ==
    /\ request.pc = "electionId"
    /\ request' = IF Falsy(request.electionId) \/ isNaN(request.electionId)
                  THEN Answered(400)
                  ELSE [request EXCEPT !.pc = "hash"]
    /\ UNCHANGED <<ledgerVars, registered, history, calls, fold, proofs, helperVars>>

\* if (!validateHash(...)) return 400
ValidateTokenHash ==
    /\ request.pc = "hash"
    /\ request' = IF ~validateHash(request.hash) THEN Answered(400)
                  ELSE IF request.route = "/vote/cast"
                  THEN [request EXCEPT !.pc = "ballot"]
                  ELSE [request EXCEPT !.pc = "contract"]
    /\ UNCHANGED <<ledgerVars, registered, history, calls, fold, proofs, helperVars>>

\* POST /vote/cast: if (!encryptedBallot || encryptedBallot.trim().length === 0)
ValidateBallot ==
    /\ request.pc = "ballot"
    /\ request' = IF Falsy(request.encryptedBallot)
                     \/ (\A i \in 1..Len(request.encryptedBallot.str) :
                            CharAt(request.encryptedBallot.str, i) \in WhiteSpace)
                  THEN Answered(400)
                  ELSE [request EXCEPT !.pc = "contract"]
    /\ UNCHANGED <<ledgerVars, registered, history, calls, fold, proofs, helperVars>>

\* if (!votingContract) return 503
CheckContract ==
    /\ request.pc = "contract"
    /\ request' = IF ~request.votingContract THEN Answered(503)
                  ELSE [request EXCEPT !.pc = "send"]
    /\ UNCHANGED <<ledgerVars, registered, history, calls, fold, proofs, helperVars>>

\* await votingContract.registerAnonymousToken / castVote and tx.wait(): the
\* library encodes the arguments and submits the transaction, which succeeds
\* (200) or reverts (500); for an electionId that is neither an integer nor a
\* decimal numeral the library may also throw before it submits (500)
SendTransaction ==
    /\ request.pc = "send"
    /\ \E encoded \in BOOLEAN, mined \in BOOLEAN :
          /\ (request.electionId.type = "number"
                \/ (request.electionId.type = "string"
                      /\ IsDecimalNumeral(request.electionId.str))) => encoded
          /\ ~encoded => ~mined
          /\ request' = IF ~encoded THEN Answered(500)
                        ELSE [Answered(IF mined THEN 200 ELSE 500)
                                 EXCEPT !.transactions = @ + 1]
    /\ UNCHANGED <<ledgerVars, registered, history, calls, fold, proofs, helperVars>>

ServerNext ==
    \/ ValidateElectionId
    \/ ValidateTokenHash
    \/ ValidateBallot
    \/ CheckContract
    \/ SendTransaction

SpecServer == ServerInit /\ [][ServerNext]_vars

(***************************************************************************)
(* SpecProver: one ZKPHelper object, with or without the circuit files and *)
(* the verification key, and calls of its entry points.                    *)
(***************************************************************************)
NoHelperCall == [op |-> "new", voterIndex |-> 0, candidateId |-> "",
                 merkleRoot |-> 0, threw |-> FALSE,
                 error |-> "", proof |-> {}, proverCalls |-> 0,
                 proverFailed |-> FALSE, outcome |-> "", value |-> FALSE,
                 verifyCalls |-> 0]

\* new ZKPHelper(): loadCircuitFiles sets isReady and vkeyPath
ProverInit ==
    /\ \E isReady \in BOOLEAN, vkeyPath \in BOOLEAN :
          zkpHelper = [pc |-> "ready", isReady |-> isReady, vkeyPath |-> vkeyPath,
                       ret |-> NoHelperCall]
    /\ merkleTreeHelper = MerkleTreeHelperIdle
    /\ request = RequestIdle /\ fold = FoldIdle /\ proofs = {}
    /\ LedgerInit /\ RaceIdle /\ registered = {} /\ HistoryIdle

CallGenerateRealProof ==
    /\ \E voterIndex \in VoterIndexes, candidateId \in Candidates,
          merkleRoot \in MerkleRoots, resolved \in BOOLEAN :
          LET got == generateRealProof(zkpHelper.isReady, generateVoterId(voterIndex),
                         generateSecretCode(voterIndex), candidateId, merkleRoot,
                         resolved)
          IN zkpHelper' = [zkpHelper EXCEPT
                 !.ret = [NoHelperCall EXCEPT !.op = "generateRealProof",
                             !.voterIndex = voterIndex, !.candidateId = candidateId,
                             !.merkleRoot = merkleRoot,
                             !.threw = got.threw, !.error = got.error,
                             !.proof = got.proof, !.proverCalls = got.proverCalls,
                             !.proverFailed = (zkpHelper.isReady /\ ~resolved)]]
    /\ UNCHANGED <<ledgerVars, registered, history, calls, request, fold, proofs,
                   merkleTreeHelper>>

CallGenerateVoteProof ==
    /\ \E voterIndex \in VoterIndexes, candidateId \in Candidates,
          merkleRoot \in MerkleRoots, resolved \in BOOLEAN :
          LET got == generateVoteProof(zkpHelper.isReady, voterIndex, candidateId,
                                       merkleRoot, resolved)
          IN zkpHelper' = [zkpHelper EXCEPT
                 !.ret = [NoHelperCall EXCEPT !.op = "generateVoteProof",
                             !.voterIndex = voterIndex, !.candidateId = candidateId,
                             !.merkleRoot = merkleRoot,
                             !.threw = got.threw, !.error = got.error,
                             !.proof = got.proof, !.proverCalls = got.proverCalls,
                             !.proverFailed = (zkpHelper.isReady /\ ~resolved)]]
    /\ UNCHANGED <<ledgerVars, registered, history, calls, request, fold, proofs,
                   merkleTreeHelper>>

CallVerifyProofLocally ==
    /\ \E outcome \in VerifyOutcomes :
          LET got == verifyProofLocally(zkpHelper.vkeyPath, outcome)
          IN zkpHelper' = [zkpHelper EXCEPT
                 !.ret = [NoHelperCall EXCEPT !.op = "verifyProofLocally",
                             !.outcome = outcome, !.threw = got.threw,
                             !.value = got.value, !.verifyCalls = got.verifyCalls]]
    /\ UNCHANGED <<ledgerVars, registered, history, calls, request, fold, proofs,
                   merkleTreeHelper>>

ProverNext ==
    \/ CallGenerateRealProof
    \/ CallGenerateVoteProof
    \/ CallVerifyProofLocally

SpecProver == ProverInit /\ [][ProverNext]_vars

(***************************************************************************)
(* SpecHelper: one MerkleTreeHelper object and the caller's list of voter  *)
(* ids (any list, the empty one too).  buildTree is called with that list, *)
(* getMerklePath with any integer index, before or after buildTree.        *)
(***************************************************************************)
VoterIdLists ==
    UNION {[1..n -> {[prefix |-> "0x", digits |-> <<v>>] : v \in LeafValues}] :
              n \in 0..MaxLeaves}
LeafIndexes == (0 - 1)..MaxLeaves

NoCall == [op |-> "new", leafIndex |-> 0, leaf |-> 0, threw |-> FALSE, error |-> "",
           root |-> Undefined, path |-> NoPath, hexRoot |-> toHex64(0),
           valid |-> FALSE]

\* new MerkleTreeHelper() and initialize(): this.tree = null, this.leaves = []
HelperInit ==
    /\ \E voterIds \in VoterIdLists :
          merkleTreeHelper = [pc |-> "ready", tree |-> <<>>, leaves |-> <<>>,
                              voterIds |-> voterIds, ret |-> NoCall]
    /\ zkpHelper = ZkpHelperIdle
    /\ request = RequestIdle /\ fold = FoldIdle /\ proofs = {}
    /\ LedgerInit /\ RaceIdle /\ registered = {} /\ HistoryIdle

BuildTree ==
    /\ LET built == MerkleTreeHelper_buildTree(merkleTreeHelper.voterIds) IN
       merkleTreeHelper' =
           [merkleTreeHelper EXCEPT !.tree = built.tree, !.leaves = built.leaves,
               !.ret = [NoCall EXCEPT !.op = "buildTree", !.root = built.root]]
    /\ UNCHANGED <<ledgerVars, registered, history, calls, request, fold, proofs,
                   zkpHelper>>

GetMerklePath ==
    /\ \E leafIndex \in LeafIndexes :
          LET got == MerkleTreeHelper_getMerklePath(merkleTreeHelper.tree,
                         merkleTreeHelper.leaves, leafIndex) IN
          merkleTreeHelper' =
              [merkleTreeHelper EXCEPT
                  !.ret = [NoCall EXCEPT !.op = "getMerklePath",
                              !.leafIndex = leafIndex, !.threw = got.threw,
                              !.error = got.error, !.path = got.path]]
    /\ UNCHANGED <<ledgerVars, registered, history, calls, request, fold, proofs,
                   zkpHelper>>

GetRoot ==
    /\ merkleTreeHelper' =
          [merkleTreeHelper EXCEPT
              !.ret = IF Len(merkleTreeHelper.tree) = 0
                      THEN [NoCall EXCEPT !.op = "getRoot", !.threw = TRUE,
                                          !.error = NotBuilt]
                      ELSE [NoCall EXCEPT !.op = "getRoot",
                               !.hexRoot = MerkleTreeHelper_getRoot(merkleTreeHelper.tree)]]
    /\ UNCHANGED <<ledgerVars, registered, history, calls, request, fold, proofs,
                   zkpHelper>>

\* verifyPath(leaf, getMerklePath(leafIndex), getRoot()) for a leaf of the
\* caller's choice and an index of the list
VerifyPath ==
    /\ Len(merkleTreeHelper.tree) > 0
    /\ \E leafIndex \in 0..(Len(merkleTreeHelper.leaves) - 1), leaf \in LeafValues :
          LET got == MerkleTreeHelper_getMerklePath(merkleTreeHelper.tree,
                         merkleTreeHelper.leaves, leafIndex)
              root == MerkleTreeHelper_getRoot(merkleTreeHelper.tree)
          IN
          merkleTreeHelper' =
              [merkleTreeHelper EXCEPT
                  !.ret = [NoCall EXCEPT !.op = "verifyPath",
                              !.leafIndex = leafIndex, !.leaf = leaf,
                              !.path = got.path, !.hexRoot = root,
                              !.valid = MerkleTreeHelper_verifyPath(leaf, got.path, root)]]
    /\ UNCHANGED <<ledgerVars, registered, history, calls, request, fold, proofs,
                   zkpHelper>>

HelperNext ==
    \/ BuildTree
    \/ GetMerklePath
    \/ GetRoot
    \/ VerifyPath

SpecHelper == HelperInit /\ [][HelperNext]_vars


(***************************************************************************)
(* Properties of the contract (checked under Spec; C2 and C10, which speak   *)
(* of registrations made earlier, under SpecHist)                            *)
(***************************************************************************)

\* the last transaction was a castVote on an election that accepted votes
WasActive == last.wasOpened /\ last.wasInWindow

\* C1 as stated: at most one castVote(e, t, *) ever succeeds, and every
\* castVote(e, t, *) issued after t was consumed fails with TokenAlreadyUsed
\* and leaves the contract storage unchanged.
C1_AsStated ==
    /\ \A e \in ElectionIds, t \in Tokens : castCount[e][t] <= 1
    /\ (last.op = "castVote" /\ last.wasUsed)
          => (last.err = TokenAlreadyUsed /\ ~last.changed)

\* C1 amended: at most one castVote(e, t, *) ever succeeds; every
\* castVote(e, t, *) issued after t was consumed fails and leaves the storage
\* unchanged; it fails with TokenAlreadyUsed when the election is Opened and
\* inside its time window, and with ElectionNotActive otherwise.
C1_SingleUseToken ==
    /\ \A e \in ElectionIds, t \in Tokens : castCount[e][t] <= 1
    /\ (last.op = "castVote" /\ last.wasUsed)
          => /\ ~last.changed
             /\ WasActive => last.err = TokenAlreadyUsed
             /\ ~WasActive => last.err \in ElectionNotActive

\* a consumed token was presented again and rejected with TokenAlreadyUsed
C1_Witness ==
    /\ last.op = "castVote"
    /\ last.wasUsed
    /\ last.err = TokenAlreadyUsed
    /\ castCount[last.electionId][last.tokenHash] = 1
    /\ elections[last.electionId].totalVotes = 1

\* C2 as stated: castVote on an Opened election inside its time window with a
\* token that registerAnonymousToken never registered for that election
\* fails with TokenAlreadyUsed and records no vote.
C2_UnregisteredTokenRejected ==
    (last.op = "castVote" /\ WasActive /\ ~last.wasRegistered)
        => (last.err = TokenAlreadyUsed /\ ~last.changed)

LifecycleSteps ==
    {<<"Created", "Created">>, <<"Created", "Opened">>, <<"Opened", "Opened">>,
     <<"Opened", "Closed">>, <<"Closed", "Closed">>}

\* C4: every election moves only Created -> Opened -> Closed; closeElection
\* on a Created election fails; nothing changes the state of a Closed one.
C4_LifecycleMonotone ==
    /\ \A e \in ElectionIds :
          <<last.before[e], LifecycleState(elections[e])>> \in LifecycleSteps
    /\ (last.op = "closeElection" /\ last.before[last.electionId] = "Created")
          => (last.err # Ok /\ ~last.changed)
    /\ \A e \in ElectionIds :
          last.before[e] = "Closed" => LifecycleState(elections[e]) = "Closed"

\* an election went through Created, Opened and Closed, and reopening it was refused
C4_Witness ==
    /\ last.op = "openElection"
    /\ last.err = AlreadyClosed
    /\ last.electionId >= 1
    /\ last.before[last.electionId] = "Closed"
    /\ LifecycleState(elections[last.electionId]) = "Closed"

\* C5: castVote succeeds only on an Opened election at a ledger time inside
\* [startTime, endTime]; otherwise it fails with ElectionNotActive and records
\* nothing; every recorded vote has its timestamp inside the window.
C5_OnlyActiveElections ==
    /\ last.op = "castVote" =>
          /\ last.err = Ok => WasActive
          /\ ~WasActive => (last.err \in ElectionNotActive /\ ~last.changed)
    /\ \A e \in ElectionIds : \A h \in DOMAIN votes[e] :
          /\ elections[e].startTime <= votes[e][h].timestamp
          /\ votes[e][h].timestamp <= elections[e].endTime

\* an unused token was refused on a Closed election whose window is still open
C5_Witness ==
    /\ last.op = "castVote"
    /\ last.err \in ElectionNotActive
    /\ last.before[last.electionId] = "Closed"
    /\ last.wasInWindow
    /\ ~last.wasUsed

\* C10 as stated: registerAnonymousToken(e, t) by the authority fails with
\* TokenAlreadyRegistered and changes nothing whenever t was already
\* registered for e, used or not.
C10_ReRegistrationRejected ==
    (last.op = "registerAnonymousToken" /\ last.err # Unauthorized
        /\ last.wasRegistered)
        => (last.err = TokenAlreadyRegistered /\ ~last.changed)

(***************************************************************************)
(* Properties of the contract: authority, lifecycle errors, schedule        *)
(***************************************************************************)
AuthorityOps == {"createElection", "openElection", "closeElection",
                 "registerAnonymousToken"}

\* C11: createElection, openElection, closeElection and registerToken called
\* by anyone but the authority fixed at deployment fail with Unauthorized and
\* change no election, token or counter; no operation changes the authority.
C11_AuthorityOnly ==
    /\ (last.op \in AuthorityOps /\ last.sender # "authority")
          => (last.err = Unauthorized /\ ~last.changed)
    /\ electionAuthority = "authority"

\* a caller other than the authority tried to close an Opened election
C11_Witness ==
    /\ last.op = "closeElection"
    /\ last.sender = "voter"
    /\ last.err = Unauthorized
    /\ last.before[last.electionId] = "Opened"
    /\ LifecycleState(elections[last.electionId]) = "Opened"

\* C12: openElection succeeds only on an election in state Created; on an
\* Opened election it fails with AlreadyOpen, on a Closed one with
\* AlreadyClosed, and in both cases nothing changes.
C12_OpenOnlyCreated ==
    (last.op = "openElection") =>
        /\ last.err = Ok => last.before[last.electionId] = "Created"
        /\ (last.sender = "authority" /\ last.before[last.electionId] = "Opened")
              => (last.err = AlreadyOpen /\ ~last.changed)
        /\ (last.sender = "authority" /\ last.before[last.electionId] = "Closed")
              => (last.err = AlreadyClosed /\ ~last.changed)

\* the authority tried to open an election that is already Opened
C12_Witness ==
    /\ last.op = "openElection"
    /\ last.sender = "authority"
    /\ last.electionId >= 1
    /\ last.before[last.electionId] = "Opened"
    /\ last.err = AlreadyOpen

\* the spec's InvalidSchedule: either rejection of the schedule
InvalidSchedule == {StartInPast, EndBeforeStart}

\* C14 as stated: createElection by the authority fails with InvalidSchedule
\* and creates nothing unless startTime is strictly greater than the ledger
\* time and endTime strictly greater than startTime.
C14_StrictlyFutureStart ==
    (last.op = "createElection" /\ last.sender = "authority"
        /\ ~(last.schedule.future /\ last.schedule.ordered))
        => (last.err \in InvalidSchedule /\ ~last.changed)

(***************************************************************************)
(* Properties of the tally, the ids and the vote records (SpecAudit,       *)
(* SpecCreate)                                                             *)
(***************************************************************************)
\* C13: once closeElection(e) has succeeded, totalVotes(e), the vote-hash
\* list of e and the set of used tokens of e are the same in every later
\* state, whatever operations follow.
C13_TallyFrozen ==
    \A e \in DOMAIN elections :
        history.closed[e] # <<>> => Tally(e) = history.closed[e][1]

\* an election was closed with a vote in it, and a transaction addressed it since
C13_Witness ==
    /\ last.op \in {"castVote", "registerAnonymousToken"}
    /\ last.sender # "voter"
    /\ last.before[last.electionId] = "Closed"
    /\ history.closed[last.electionId] # <<>>
    /\ Tally(last.electionId).totalVotes >= 1
    /\ ~usedTokens[last.electionId][last.tokenHash]

\* C15: the k-th successful createElection returns id k, a failed
\* createElection consumes no id, electionCount equals the number of
\* successful creations, and each new election starts with isActive=false,
\* isClosed=false and totalVotes=0.
C15_SequentialIds ==
    /\ history.ids = [k \in 1..Len(history.ids) |-> k]
    /\ electionCount = Len(history.ids)
    /\ (last.op = "createElection" /\ last.err # Ok)
          => (~last.changed /\ last.ret = NoReturn)
    /\ (last.op = "createElection" /\ last.err = Ok)
          => /\ elections[last.ret[1]].id = last.ret[1]
             /\ ~elections[last.ret[1]].isActive
             /\ ~elections[last.ret[1]].isClosed
             /\ elections[last.ret[1]].totalVotes = 0

\* the second election was just created, after the first one was opened
C15_Witness ==
    /\ last.op = "createElection"
    /\ last.err = Ok
    /\ last.ret = <<2>>
    /\ history.ids = <<1, 2>>
    /\ elections[1].isActive

\* the vote records, the list and the counters of election e agree
ConsistentVotes(e) ==
    LET list == getElectionVoteHashes(e) IN
    /\ elections[e].totalVotes = Len(list)
    /\ DOMAIN votes[e] = {list[i] : i \in DOMAIN list}
    /\ Cardinality(DOMAIN votes[e]) = Len(list)
    /\ \A h \in DOMAIN votes[e] :
          /\ votes[e][h].voteHash = h
          /\ verifyVoteInclusion(e, h).exists
          /\ usedTokens[e][votes[e][h].anonymousTokenHash]
    /\ \A t \in DOMAIN usedTokens[e] :
          usedTokens[e][t] => \E h \in DOMAIN votes[e] :
                                  votes[e][h].anonymousTokenHash = t

VoteHashes ==
    {ZeroHash} \cup
    {VoteHashOf(e, t, b, ts, bn) :
        e \in DOMAIN elections, t \in AuditTokens, b \in Ballots,
        ts \in 1..MaxTime, bn \in DeployBlock..(DeployBlock + MaxTime)}

\* C17: verifyVoteInclusion(e, h) never fails and changes no state; for every
\* voteHash returned by a successful castVote on e it returns exists=true
\* with the timestamp and position at which the vote was recorded, for every
\* other (e, h) it returns exists=false, timestamp=0, position=0.
C17_VerifyVoteInclusion ==
    /\ last.op = "verifyVoteInclusion" => (last.err = Ok /\ ~last.changed)
    /\ \A e \in DOMAIN elections, h \in VoteHashes :
          LET logged == {i \in DOMAIN history.cast[e] :
                            history.cast[e][i].voteHash = h}
          IN IF logged # {}
             THEN \A i \in logged :
                    verifyVoteInclusion(e, h) =
                        [exists |-> TRUE,
                         timestamp |-> history.cast[e][i].timestamp,
                         blockNumber |-> history.cast[e][i].blockNumber]
             ELSE verifyVoteInclusion(e, h) =
                        [exists |-> FALSE, timestamp |-> 0, blockNumber |-> 0]

\* a recorded vote was looked up and found, while another election has none
C17_Witness ==
    /\ last.op = "verifyVoteInclusion"
    /\ last.wasRecorded
    /\ last.ret[1].exists
    /\ last.ret[1].blockNumber > DeployBlock
    /\ Len(history.cast[last.electionId]) = 2

\* C18: after any operation the vote-hash list of an election is unchanged or
\* the previous list with exactly one hash appended at the end, and its order
\* is the order in which the successful castVote calls were applied.
C18_AppendOnly ==
    \A e \in DOMAIN elections :
        LET list == getElectionVoteHashes(e)
            before == history.listBefore[e]
        IN /\ \/ list = before
              \/ /\ Len(list) = Len(before) + 1
                 /\ SubSeq(list, 1, Len(before)) = before
           /\ list = [i \in 1..Len(history.cast[e]) |-> history.cast[e][i].voteHash]

\* a second hash was just appended behind the first
C18_Witness ==
    /\ last.op = "castVote"
    /\ last.err = Ok
    /\ Len(history.listBefore[last.electionId]) = 1
    /\ Len(getElectionVoteHashes(last.electionId)) = 2
    /\ getElectionVoteHashes(last.electionId)[2] = last.ret

\* every vote record still reads as it was written
RecordsKept ==
    \A e \in DOMAIN elections : \A i \in DOMAIN history.cast[e] :
        VoteAt(e, history.cast[e][i].voteHash) = history.cast[e][i].record

\* no hash occurs twice in a vote-hash list
NoDuplicateHash ==
    \A e \in DOMAIN elections :
        LET list == getElectionVoteHashes(e) IN
        \A i \in DOMAIN list, j \in DOMAIN list : list[i] = list[j] => i = j

\* C19 as stated: a vote record never changes once created; a later castVote
\* whose computed hash equals an existing one fails with HashCollision; the
\* vote-hash list never contains the same hash twice.
C19_AsStated ==
    /\ RecordsKept
    /\ (last.op = "castVote" /\ last.wasRecorded) => last.err = HashCollision
    /\ NoDuplicateHash

\* C19 amended: a vote record never changes once created; a later castVote
\* whose computed hash equals an existing one fails and changes nothing, with
\* TokenAlreadyUsed or ElectionNotActive (it repeats a consumed token, and
\* those checks come before the collision check); the vote-hash list never
\* contains the same hash twice.
C19_WriteOnce ==
    /\ RecordsKept
    /\ (last.op = "castVote" /\ last.wasRecorded)
          => /\ last.err \in {TokenAlreadyUsed} \cup ElectionNotActive
             /\ ~last.changed
    /\ NoDuplicateHash

\* the very same vote was sent again in the block that recorded it
C19_Witness ==
    /\ last.op = "castVote"
    /\ last.wasRecorded
    /\ last.err = TokenAlreadyUsed
    /\ Len(history.cast[last.electionId]) >= 1

(***************************************************************************)
(* Properties of the race (checked under SpecRace)                         *)
(***************************************************************************)
AllDone == \A i \in DOMAIN calls : calls[i].pc = "done"
Succeeded == {i \in DOMAIN calls : calls[i].err = Ok}
Rejected == {i \in DOMAIN calls : calls[i].err = TokenAlreadyUsed}

ExactlyOneWins ==
    /\ Cardinality(Succeeded) = 1
    /\ Cardinality(Rejected) = Len(calls) - 1
    /\ elections[RaceElection].totalVotes = 1

\* every call was executed at a ledger time inside the election's window
AllInWindow ==
    \A i \in DOMAIN calls :
        /\ elections[RaceElection].startTime <= calls[i].minedAt
        /\ calls[i].minedAt <= elections[RaceElection].endTime

\* C3 as stated: of N >= 2 concurrent castVote calls with the same registered,
\* unused token of an Opened election, exactly one succeeds, N-1 fail with
\* TokenAlreadyUsed and totalVotes grows by exactly 1.
C3_AsStated == AllDone => ExactlyOneWins

\* C3 amended: the same, for calls that are all executed while the ledger
\* time is inside [startTime, endTime] of the Opened election.
C3_ExactlyOneWins == (AllDone /\ AllInWindow) => ExactlyOneWins

\* three calls raced inside the window and one of them won
C3_Witness ==
    /\ AllDone /\ AllInWindow
    /\ Len(calls) >= 2
    /\ Cardinality(Succeeded) = 1
    /\ Cardinality(Rejected) >= 1

(***************************************************************************)
(* Properties of the ZKP server, the circuit and the helper                *)
(***************************************************************************)
TreeBuilt == request.pc \in {"find", "proof", "fold", "prove", "done"}
                /\ Len(request.leaves) > 0

\* C6 as stated: for every non-empty leaf list L (0 a possible leaf) and every
\* index i in range, folding L[i] through getProof(i) with the skip-on-zero
\* rule yields getRoot(), and /zkp/generate-proof never answers
\* "Merkle proof verification failed" for a voter whose leaf is in the list.
C6_RoundTrip ==
    TreeBuilt =>
        /\ \A i \in 0..(Len(request.leaves) - 1) :
              manualFold(At(request.leaves, i), getProof(request.tree, i), 0)
                  = getRoot(request.tree)
        /\ request.error # VerificationFailed

\* C7 as stated: when buildTree processes a level with an odd number of
\* nodes, the unpaired last node is carried to the next level unchanged; for
\* leaves [a, b, c] level 1 is [hash(a, b), c].
C7_OddNodeCarried ==
    TreeBuilt =>
        \A k \in 1..(Len(request.tree) - 1) :
            LET level == request.tree[k]
                next == request.tree[k + 1]
            IN Len(level) % 2 = 1 => next[Len(next)] = level[Len(level)]

\* C8: for every leaf, every TREE_DEPTH-entry path-element vector and every
\* TREE_DEPTH-entry bit vector, the value of the manual fold equals
\* levelHashes[TREE_DEPTH] of MerkleTreeChecker, so the local check passes
\* exactly when the circuit's root constraint holds.
C8_FoldsAgree ==
    fold.level = TREE_DEPTH =>
        /\ fold.currentHash = fold.levelHashes
        /\ (fold.currentHash = fold.root) <=> (fold.levelHashes = fold.root)

\* a full path with padding levels and hashed levels passed both checks
C8_Witness ==
    /\ fold.level = TREE_DEPTH
    /\ fold.skipped = 1
    /\ fold.hashed = 1
    /\ fold.currentHash = fold.root
    /\ fold.levelHashes = fold.root

\* C9 as stated: the nullifier returned with a proof is a function of
\* (voterNationalId, voterSecret, electionId): the same triple gives the same
\* nullifier, and for the same voter and secret two different election ids
\* give two different nullifiers.
C9_NullifierPerElection ==
    \A p \in proofs, q \in proofs :
        (p.voterId = q.voterId /\ p.secretCode = q.secretCode) =>
            /\ p.electionId = q.electionId => p.nullifier = q.nullifier
            /\ p.electionId # q.electionId => p.nullifier # q.nullifier

\* C20: for every tree and every leaf index in range, getProof returns
\* exactly TREE_DEPTH path elements and TREE_DEPTH path indices, and every
\* entry at a level at or above the real tree height is the pair ("0", 0).
C20_PathShape ==
    TreeBuilt =>
        \A i \in 0..(Len(request.leaves) - 1) :
            LET proof == getProof(request.tree, i)
                height == Len(request.tree) - 1
            IN /\ Len(proof.pathElements) = TREE_DEPTH
               /\ Len(proof.pathIndices) = TREE_DEPTH
               /\ \A level \in height..(TREE_DEPTH - 1) :
                     /\ At(proof.pathElements, level) = 0
                     /\ At(proof.pathIndices, level) = 0

\* the path of the unpaired third leaf of a three-leaf tree was computed
C20_Witness ==
    /\ request.pc = "fold"
    /\ Len(request.leaves) = 3
    /\ request.index = 2
    /\ Len(request.tree) = 3
    /\ Len(request.proofPath.pathElements) = TREE_DEPTH
    /\ At(request.proofPath.pathElements, 0) # 0

LeafPresent == \E i \in 1..Len(request.leaves) : request.leaves[i] = request.voterLeaf

C22_TokenAlreadyUsedReported ==
    \A i \in DOMAIN calls :
        (calls[i].pc = "done" /\ calls[i].err = TokenAlreadyUsed) =>
            /\ ~calls[i].response.success
            /\ includes(calls[i].response.error, "Token already used")
            /\ test8_PreventDoubleVote(calls[i].response)

\* C23: building a membership index from an empty leaf sequence fails and
\* yields no root, in the ZKP server's MerkleTree constructor and in the
\* benchmark's MerkleTreeHelper.buildTree.
C23_EmptyIndexRejected ==
    /\ (request.pc \in {"find", "proof", "fold", "prove", "done"}
           /\ Len(request.leaves) = 0) =>
          request.error = InvalidLeaves /\ request.tree = <<>>
             /\ request.merkleRoot = Undefined
    /\ (merkleTreeHelper.pc = "ready" /\ merkleTreeHelper.ret.op = "buildTree"
           /\ Len(merkleTreeHelper.voterIds) = 0) =>
          merkleTreeHelper.ret.threw /\ merkleTreeHelper.ret.root = Undefined

\* C24: getMerklePath(leafIndex) fails with an out-of-range error for every
\* leafIndex outside 0 <= leafIndex < leafCount, negative ones included, and
\* returns a path only for indices inside that range.
C24_IndexRangeChecked ==
    (merkleTreeHelper.pc = "ready" /\ merkleTreeHelper.ret.op = "getMerklePath"
        /\ Len(merkleTreeHelper.tree) > 0) =>
        LET leafIndex == merkleTreeHelper.ret.leafIndex
            inRange == 0 <= leafIndex /\ leafIndex < Len(merkleTreeHelper.leaves)
        IN /\ ~inRange => merkleTreeHelper.ret.threw
                             /\ merkleTreeHelper.ret.error = IndexOutOfRange
                             /\ merkleTreeHelper.ret.path = NoPath
           /\ inRange => ~merkleTreeHelper.ret.threw
                            /\ Len(merkleTreeHelper.ret.path.elements) = HelperDepth

HelperBuilt == merkleTreeHelper.pc = "ready" /\ Len(merkleTreeHelper.leaves) > 0

C26_HelperRoundTrip ==
    (HelperBuilt /\ merkleTreeHelper.ret.op = "verifyPath"
        /\ merkleTreeHelper.ret.leaf
              = At(merkleTreeHelper.leaves, merkleTreeHelper.ret.leafIndex)) =>
        merkleTreeHelper.ret.valid

\* C27 as stated: whenever the external prover fails inside
\* ZKPHelper.generateVoteProof, the failure is propagated to the caller and
\* no proof object is returned as if generation had succeeded.
C27_ProvingErrorPropagated ==
    (zkpHelper.pc = "ready" /\ zkpHelper.ret.op = "generateVoteProof"
        /\ zkpHelper.ret.proverFailed) =>
        zkpHelper.ret.threw /\ zkpHelper.ret.proof = {}

\* C28 as stated: when the external prover fails during proof generation it
\* is invoked again for the same witness, a bounded number of times, before
\* the failure is reported to the caller (POST /zkp/generate-proof and
\* ZKPHelper.generateRealProof).
C28_ProvingRetried ==
    /\ (request.pc = "done" /\ request.error = ProvingFailed) =>
          request.proverCalls >= 2
    /\ (zkpHelper.pc = "ready" /\ zkpHelper.ret.op = "generateRealProof"
           /\ zkpHelper.ret.threw /\ zkpHelper.ret.error = ProvingFailed) =>
          zkpHelper.ret.proverCalls >= 2

\* C29: verifyProofLocally never propagates an exception: for every input,
\* also when reading the key, converting a signal or the external verify
\* raises an error, it returns a boolean, false on error.
C29_VerifyNeverFatal ==
    (zkpHelper.pc = "ready" /\ zkpHelper.ret.op = "verifyProofLocally") =>
        /\ ~zkpHelper.ret.threw
        /\ zkpHelper.ret.value \in BOOLEAN
        /\ zkpHelper.ret.verifyCalls \in {0, 1}
        /\ (zkpHelper.vkeyPath /\ zkpHelper.ret.outcome \notin {"valid", "invalid"}) =>
              zkpHelper.ret.value = FALSE
        /\ (zkpHelper.vkeyPath /\ zkpHelper.ret.outcome \in {"valid", "invalid"}) =>
              zkpHelper.ret.value = (zkpHelper.ret.outcome = "valid")

\* the external verify raised an error and false was returned
C29_Witness ==
    /\ zkpHelper.pc = "ready"
    /\ zkpHelper.vkeyPath
    /\ zkpHelper.ret.op = "verifyProofLocally"
    /\ zkpHelper.ret.outcome = "verifyError"
    /\ zkpHelper.ret.verifyCalls = 1
    /\ zkpHelper.ret.value = FALSE

\* C30 as stated: POST /zkp/verify never invokes the prover and never
\* derives a witness again: for every request, with or without
\* originalInputs, the proof valid or not, the only external capability
\* called is verify, at most once, and the 'valid' of the response is the
\* result of that single call.
C30_VerifyOnly ==
    /\ request.proverCalls = 0
    /\ request.verifyCalls \in {0, 1}
    /\ (request.pc = "done" /\ request.success) =>
          request.verifyCalls = 1 /\ request.valid = request.verified

\* an id that is present and a number: a finite number or a decimal numeral
NumericElectionId(v) ==
    \/ v.type = "number"
    \/ v.type = "string" /\ IsDecimalNumeral(v.str)

\* '0x' followed by exactly 64 hexadecimal characters
WellFormedHash(v) ==
    /\ v.type = "string"
    /\ Len(v.str) = 66
    /\ SubSeq(v.str, 1, 2) = "0x"
    /\ \A i \in 3..66 : CharAt(v.str, i) \in HexCharacters

\* C31 as stated: a request of POST /token/register or POST /vote/cast whose
\* token hash is not '0x' followed by exactly 64 hexadecimal characters, or
\* whose electionId is missing or not numeric, is answered with 400 and no
\* contract transaction is submitted for it.
C31_ValidationFirst ==
    (request.pc = "done"
        /\ (~WellFormedHash(request.hash) \/ ~NumericElectionId(request.electionId))) =>
        request.status = 400 /\ request.transactions = 0

\* the tokens marked used for election e
UsedTokensOf(e) == {t \in DOMAIN usedTokens[e] : usedTokens[e][t]}

\* C32: in every reachable ledger state and for every election e,
\* totalVotes(e) = length of the vote-hash list of e = number of vote records
\* stored for e = number of tokens marked used for e, and a hash h is in the
\* list exactly when verifyVoteInclusion(e, h) reports exists=true.
C32_TallyConsistent ==
    \A e \in DOMAIN elections :
        LET list == getElectionVoteHashes(e) IN
        /\ elections[e].totalVotes = Len(list)
        /\ Len(list) = Cardinality(DOMAIN votes[e])
        /\ Cardinality(DOMAIN votes[e]) = Cardinality(UsedTokensOf(e))
        /\ \A h \in VoteHashes :
              (\E i \in DOMAIN list : list[i] = h) <=> verifyVoteInclusion(e, h).exists

\* two tokens were consumed in election 1, a third castVote was refused
\* there, and the other election holds no vote
C32_Witness ==
    /\ last.op = "castVote"
    /\ last.err = TokenAlreadyUsed
    /\ UsedTokensOf(1) = AuditTokens
    /\ elections[1].totalVotes = 2
    /\ Cardinality(DOMAIN votes[1]) = 2
    /\ elections[0].totalVotes = 0

CreatedIds == {history.ids[i] : i \in DOMAIN history.ids}

\* C34 as stated: openElection, closeElection and registerAnonymousToken fail
\* for every id that no successful createElection has returned, id 0
\* included, so every election with isActive=true or isClosed=true has an id
\* in 1..electionCount.
C34_OnlyCreated ==
    /\ (last.op \in {"openElection", "closeElection", "registerAnonymousToken"}
            /\ last.electionId \notin CreatedIds)
          => last.err # Ok
    /\ \A e \in DOMAIN elections :
          (elections[e].isActive \/ elections[e].isClosed) => e \in 1..electionCount

\* C35: an operation addressed to election e (openElection, closeElection,
\* registerAnonymousToken, castVote) leaves the lifecycle flags, totalVotes,
\* token states and vote list of every other election unchanged; consuming
\* token hash t in e does not make t used in another election e', and the
\* same t can still be consumed once in e'.
C35_ElectionsIsolated ==
    /\ last.op \in {"openElection", "closeElection", "registerAnonymousToken", "castVote"}
          => history.othersKept
    /\ (last.op = "castVote" /\ last.err = Ok)
          => \A other \in DOMAIN elections \ {last.electionId} :
                /\ usedTokens[other][last.tokenHash] = (castCount[other][last.tokenHash] >= 1)
                /\ (~usedTokens[other][last.tokenHash] /\ electionActive(other) = Ok)
                      => \A ballot \in Ballots :
                            castVoteCheck(other, last.tokenHash, ballot) = Ok
    /\ \A e \in DOMAIN elections : \A t \in DOMAIN usedTokens[e] : castCount[e][t] <= 1

\* the token consumed in election 1 was then consumed in election 2, and a
\* further castVote with it was refused
C35_Witness ==
    /\ last.op = "castVote"
    /\ last.err = TokenAlreadyUsed
    /\ \A e \in {1, 2} :
          /\ usedTokens[e][1]
          /\ castCount[e][1] = 1
          /\ elections[e].totalVotes = 1
    /\ electionVoteHashes[1][1][4] < electionVoteHashes[2][1][4]

\* C36 as stated: for every non-empty ordered leaf list the root returned by
\* MerkleTree.getRoot of the ZKP server equals the root computed by
\* MerkleTreeHelper.buildTree on the same leaves.
C36_RootsAgree ==
    (merkleTreeHelper.pc = "ready"
        /\ merkleTreeHelper.ret.op = "buildTree"
        /\ Len(merkleTreeHelper.leaves) >= 1)
      => getRoot(buildTree(merkleTreeHelper.leaves)) = merkleTreeHelper.ret.root

\* C37 as stated: verifyProofLocally returns true only if the external
\* verify was invoked on the proof and the public signals and returned true;
\* it never reports a proof as valid without a successful verification.
C37_TrueOnlyIfVerified ==
    (zkpHelper.pc = "ready"
        /\ zkpHelper.ret.op = "verifyProofLocally"
        /\ ~zkpHelper.ret.threw
        /\ zkpHelper.ret.value = TRUE)
      => (zkpHelper.ret.verifyCalls = 1 /\ zkpHelper.ret.outcome = "valid")

\* the least k with 2^k >= n, for n >= 1
RECURSIVE CeilLog2(_)
CeilLog2(n) == IF n <= 1 THEN 0 ELSE 1 + CeilLog2((n + 1) \div 2)

\* C38: MerkleTree.buildTree terminates for every non-empty leaf list: each
\* turn of its while loop replaces a level of n > 1 nodes by one of
\* ceil(n/2) < n nodes, so it stops with a single-node top level after
\* exactly ceil(log2(n)) turns, 0 turns for one leaf, whose root is the leaf.
C38_BuildTreeTerminates ==
    TreeBuilt =>
        LET tree == request.tree
            n == Len(request.leaves)
        IN /\ tree[1] = request.leaves
           /\ Len(tree) - 1 = CeilLog2(n)
           /\ Len(tree[Len(tree)]) = 1
           /\ \A d \in 2..Len(tree) :
                 /\ Len(tree[d - 1]) > 1
                 /\ Len(tree[d]) = (Len(tree[d - 1]) + 1) \div 2
                 /\ Len(tree[d]) < Len(tree[d - 1])
           /\ n = 1 => (Len(tree) = 1 /\ getRoot(tree) = request.leaves[1])

\* a tree of three leaves was built in two turns, through a level of two nodes
C38_Witness ==
    /\ request.pc = "find"
    /\ Len(request.leaves) = 3
    /\ Len(request.tree) = 3
    /\ Len(request.tree[2]) = 2
    /\ Len(request.tree[3]) = 1

====
